---- MODULE Spec2Model ----
(***************************************************************************)
(* Document extraction and validation pipeline: the file type sniffer,     *)
(* the invoice validator (ZATCA compliance, completeness, filtering), the  *)
(* contract validator (completeness, amount matching), the parsing of the  *)
(* extraction oracle's reply, the image compressor, the invoice processor  *)
(* and the reconciliation drivers.                                         *)
(*                                                                         *)
(* The validators are pure functions.  Each is an operator computed as the *)
(* Python computes it; a call is the pair of states (pc = "call", the      *)
(* arguments chosen) -> (pc = "return", the outcome stored).  An outcome   *)
(* is [exc, val]: exc = "none" and the returned value, or the name of the  *)
(* exception that left the function.  The image compressor and the batch   *)
(* drivers are loops: one step per encoding attempt, one per project.      *)
(*                                                                         *)
(* Python strings are sequences of one-character strings.  A Python value  *)
(* is [t, s]: its type name and str(value).  A dict is a function whose    *)
(* DOMAIN is the set of keys it has.  A float is an exact decimal counted   *)
(* in hundredths; the amounts of the inputs are multiples of 0.25, which   *)
(* binary floating point holds and adds without rounding.                  *)
(***************************************************************************)
EXTENDS Integers, Sequences, FiniteSets, TLC

VARIABLES
    pc,      \* "call": the arguments are chosen; "return": the call is over
    fn,      \* the function called
    args,    \* its arguments
    ret,     \* its outcome, [exc, val]
    passes,  \* how many times filter_complete_results has run on the list
    locals,  \* the local variables of a function that runs in several steps
    store    \* the rows update_project_verification wrote to the project store

vars == <<pc, fn, args, ret, passes, locals, store>>

(***************************************************************************)
(* Bounds of the model.                                                    *)
(***************************************************************************)
\* bytes that follow a signature (or a broken signature) in a buffer
MaxTail == 1
\* fields of a reference record that are replaced or removed in one input
MaxDeviations == 2
\* records in a list handed to filter_complete_results
MaxResults == 2
\* runs of filter_complete_results on its own output
MaxPasses == 2

(***************************************************************************)
(* Outcomes.                                                               *)
(***************************************************************************)
Return(v) == [exc |-> "none", val |-> v]

Raise(e) == [exc |-> e, val |-> e]

Pending == [exc |-> "pending", val |-> "pending"]

Returned == pc = "return" /\ ret.exc = "none"

\* the frame of a function that is one step from call to return
NoLocals == [none |-> TRUE]

(***************************************************************************)
(* bytes: sequences of 0..255.                                             *)
(***************************************************************************)
startswith(b, sig) ==
    /\ Len(b) >= Len(sig)
    /\ SubSeq(b, 1, Len(sig)) = sig

\* sub in b: sub occurs somewhere in b
contains(b, sub) ==
    \E i \in 1..(Len(b) - Len(sub) + 1) : SubSeq(b, i, i + Len(sub) - 1) = sub

\* b[:n]
slice_to(b, n) == SubSeq(b, 1, IF Len(b) < n THEN Len(b) ELSE n)

SIG_PDF == <<37, 80, 68, 70>>

SIG_JPEG == <<255, 216, 255>>

SIG_PNG == <<137, 80, 78, 71, 13, 10, 26, 10>>

SIG_GIF87a == <<71, 73, 70, 56, 55, 97>>

SIG_GIF89a == <<71, 73, 70, 56, 57, 97>>

SIG_BMP == <<66, 77>>

SIG_RIFF == <<82, 73, 70, 70>>

SIG_WEBP == <<87, 69, 66, 80>>

\* the list the loop of detect_file_type walks, in its order
image_signatures == <<SIG_JPEG, SIG_PNG, SIG_GIF87a, SIG_GIF89a, SIG_BMP>>

\* detect_file_type with the signature loop stopping one entry early
detect_file_type_short_loop(file_content) ==
    IF startswith(file_content, SIG_PDF) THEN "pdf"
    ELSE IF \E i \in 1..(Len(image_signatures) - 1) :
                startswith(file_content, image_signatures[i]) THEN "image"
    ELSE IF startswith(file_content, SIG_RIFF)
            /\ contains(slice_to(file_content, 12), SIG_WEBP) THEN "image"
    ELSE "unknown"

detect_file_type(file_content) ==
    IF startswith(file_content, SIG_PDF) THEN "pdf"
    ELSE IF \E i \in DOMAIN image_signatures :
                startswith(file_content, image_signatures[i]) THEN "image"
    ELSE IF startswith(file_content, SIG_RIFF)
            /\ contains(slice_to(file_content, 12), SIG_WEBP) THEN "image"
    ELSE "unknown"

(***************************************************************************)
(* str: sequences of one-character strings.                                *)
(***************************************************************************)
DIGITS == {"0", "1", "2", "3", "4", "5", "6", "7", "8", "9"}

DigitValue == [c \in DIGITS |->
    CASE c = "0" -> 0 [] c = "1" -> 1 [] c = "2" -> 2 [] c = "3" -> 3
      [] c = "4" -> 4 [] c = "5" -> 5 [] c = "6" -> 6 [] c = "7" -> 7
      [] c = "8" -> 8 [] c = "9" -> 9]

LOWER == <<"a", "b", "c", "d", "e", "l", "m", "n", "o", "r", "s", "u">>

UPPER == <<"A", "B", "C", "D", "E", "L", "M", "N", "O", "R", "S", "U">>

\* str.upper(), one character
upper_char(c) ==
    IF \E i \in DOMAIN LOWER : LOWER[i] = c
    THEN UPPER[CHOOSE i \in DOMAIN LOWER : LOWER[i] = c]
    ELSE c

\* str.upper()
upper(s) == [i \in DOMAIN s |-> upper_char(s[i])]

RECURSIVE lstrip(_)
lstrip(s) == IF s # <<>> /\ Head(s) = " " THEN lstrip(Tail(s)) ELSE s

RECURSIVE rstrip(_)
rstrip(s) ==
    IF s # <<>> /\ s[Len(s)] = " " THEN rstrip(SubSeq(s, 1, Len(s) - 1)) ELSE s

\* str.strip()
strip(s) == rstrip(lstrip(s))

\* str.replace(c, '') for a one-character c
remove_char(s, c) == SelectSeq(s, LAMBDA x : x # c)

\* str.replace('SAR', ''): the occurrences found left to right are removed
RECURSIVE remove_SAR(_)
remove_SAR(s) ==
    IF s = <<>> THEN <<>>
    ELSE IF Len(s) >= 3 /\ SubSeq(s, 1, 3) = <<"S", "A", "R">>
         THEN remove_SAR(SubSeq(s, 4, Len(s)))
         ELSE <<Head(s)>> \o remove_SAR(Tail(s))

\* str.isdigit(): non-empty and every character a digit
isdigit(s) == s # <<>> /\ \A i \in DOMAIN s : s[i] \in DIGITS

RECURSIVE digits_value(_)
digits_value(s) ==
    IF s = <<>> THEN 0
    ELSE 10 * digits_value(SubSeq(s, 1, Len(s) - 1)) + DigitValue[s[Len(s)]]

all_digits(s) == \A i \in DOMAIN s : s[i] \in DIGITS

\* the decimal literal without sign: digits, with at most one '.', at least
\* one digit, at most two of them after the point; its value in hundredths
unsigned_ok(s) ==
    LET dots == {i \in DOMAIN s : s[i] = "."}
    IN  \/ dots = {} /\ isdigit(s)
        \/ /\ Cardinality(dots) = 1
           /\ LET d == CHOOSE i \in dots : TRUE
              IN  /\ all_digits(SubSeq(s, 1, d - 1))
                  /\ all_digits(SubSeq(s, d + 1, Len(s)))
                  /\ Len(s) >= 2
                  /\ Len(s) - d <= 2

unsigned_value(s) ==
    LET dots == {i \in DOMAIN s : s[i] = "."}
    IN  IF dots = {} THEN 100 * digits_value(s)
        ELSE LET d    == CHOOSE i \in dots : TRUE
                 frac == SubSeq(s, d + 1, Len(s))
             IN  100 * digits_value(SubSeq(s, 1, d - 1))
                 + (IF Len(frac) = 1 THEN 10 * digits_value(frac)
                    ELSE digits_value(frac))

\* float(s): surrounding whitespace ignored, an optional sign, a decimal
\* literal; anything else is a ValueError.  The value is in hundredths.
float_ok(s) ==
    LET t == strip(s)
    IN  /\ t # <<>>
        /\ IF Head(t) \in {"-", "+"} THEN unsigned_ok(Tail(t)) ELSE unsigned_ok(t)

float_value(s) ==
    LET t == strip(s)
    IN  IF Head(t) = "-" THEN 0 - unsigned_value(Tail(t))
        ELSE IF Head(t) = "+" THEN unsigned_value(Tail(t))
        ELSE unsigned_value(t)

abs(x) == IF x < 0 THEN 0 - x ELSE x

(***************************************************************************)
(* Python values: [t |-> type name, s |-> str(value)].                     *)
(***************************************************************************)
PyStr(s) == [t |-> "str", s |-> s]

PyNone == [t |-> "NoneType", s |-> <<"N", "o", "n", "e">>]

PyTrue == [t |-> "bool", s |-> <<"T", "r", "u", "e">>]

PyFalse == [t |-> "bool", s |-> <<"F", "a", "l", "s", "e">>]

\* str(v)
str(v) == v.s

\* the truth value of v in `if v` / `not v`
truthy(v) ==
    CASE v.t = "str" -> v.s # <<>>
      [] v.t = "NoneType" -> FALSE
      [] v.t = "bool" -> v = PyTrue

\* v == 'literal'
eq_str(v, lit) == v.t = "str" /\ v.s = lit

has(d, key) == key \in DOMAIN d

(***************************************************************************)
(* The sniffer: detect_file_type on one buffer.                            *)
(***************************************************************************)
Zeros(n) == [i \in 1..n |-> 0]

Prefixes(sig) == {SubSeq(sig, 1, n) : n \in 0..Len(sig)}

TailBytes == {0, 66, 255}

RECURSIVE Tails(_)
Tails(n) ==
    IF n = 0 THEN {<<>>}
    ELSE Tails(n - 1) \cup {t \o <<b>> : t \in Tails(n - 1), b \in TailBytes}

\* every signature cut at every length, and RIFF containers with the WEBP tag
\* (whole or cut) after 0..6 bytes, so that the tag ends before, at and after
\* byte 12; the same with the RIFF tag overwritten
Heads ==
    UNION {Prefixes(sig) : sig \in {SIG_PDF, SIG_JPEG, SIG_PNG, SIG_GIF87a,
                                     SIG_GIF89a, SIG_BMP, SIG_RIFF}}
    \cup {riff \o Zeros(gap) \o tag :
            riff \in {SIG_RIFF, Zeros(4)}, gap \in 0..6, tag \in Prefixes(SIG_WEBP)}

Buffers == {h \o t : h \in Heads, t \in Tails(MaxTail)}

InitSniffer ==
    /\ pc = "call"
    /\ fn = "detect_file_type"
    /\ args \in [file_content : Buffers]
    /\ ret = Pending
    /\ passes = 0
    /\ locals = NoLocals
    /\ store = <<>>

call_detect_file_type ==
    /\ pc = "call"
    /\ fn = "detect_file_type"
    /\ ret' = Return(detect_file_type(args.file_content))
    /\ pc' = "return"
    /\ UNCHANGED <<fn, args, passes, locals, store>>

NextSniffer == call_detect_file_type

SpecSniffer == InitSniffer /\ [][NextSniffer]_vars

\* the signatures the claim lists for 'image'
ListedImage(b) ==
    \/ startswith(b, <<255, 216, 255>>)
    \/ startswith(b, <<137, 80, 78, 71, 13, 10, 26, 10>>)
    \/ startswith(b, <<71, 73, 70, 56, 55, 97>>)
    \/ startswith(b, <<71, 73, 70, 56, 57, 97>>)
    \/ startswith(b, <<66, 77>>)

ListedPdf(b) == startswith(b, <<37, 80, 68, 70>>)

\* a RIFF container whose first 12 bytes hold the WEBP tag
RiffWebp(b) ==
    /\ startswith(b, <<82, 73, 70, 70>>)
    /\ \E i \in 5..9 : Len(b) >= i + 3 /\ SubSeq(b, i, i + 3) = <<87, 69, 66, 80>>

DetectReturned == fn = "detect_file_type" /\ Returned

\* C1 as stated: %PDF gives 'pdf'; the JPEG, PNG, GIF87a/GIF89a and BMP magic
\* bytes give 'image'; every buffer starting with none of these gives 'unknown'.
C1_AsStated ==
    DetectReturned =>
        LET b == args.file_content
        IN  /\ ListedPdf(b) => ret.val = "pdf"
            /\ ListedImage(b) => ret.val = "image"
            /\ (~ListedPdf(b) /\ ~ListedImage(b)) => ret.val = "unknown"

\* C1 amended: %PDF gives 'pdf'; the JPEG, PNG, GIF87a/GIF89a and BMP magic
\* bytes, and a RIFF container with the WEBP tag inside its first 12 bytes,
\* give 'image'; every other buffer, the empty one included, gives 'unknown'.
C1_Detect ==
    DetectReturned =>
        LET b == args.file_content
        IN  /\ ListedPdf(b) => ret.val = "pdf"
            /\ (ListedImage(b) \/ RiffWebp(b)) => ret.val = "image"
            /\ (~ListedPdf(b) /\ ~ListedImage(b) /\ ~RiffWebp(b))
                   => ret.val = "unknown"

\* a RIFF container with the WEBP tag, none of the listed signatures, was
\* classified 'image'
C1_Witness ==
    /\ DetectReturned
    /\ RiffWebp(args.file_content)
    /\ ~ListedImage(args.file_content)
    /\ ret.val = "image"

(***************************************************************************)
(* InvoiceValidator.                                                       *)
(***************************************************************************)
required_fields ==
    <<"invoice_number", "invoice_date", "supplier_name",
      "supplier_vat_number", "customer_name">>

financial_fields ==
    <<"total_amount_excluding_vat", "vat_amount", "total_amount_including_vat">>

SENTINELS == {<<"N", "/", "A">>, <<"N", "A">>, <<"N", "U", "L", "L">>,
              <<"N", "O", "N", "E">>, <<>>}

\* str(x).replace('SAR', '').replace(',', '').strip()
clean_amount(text) == strip(remove_char(remove_SAR(text), ","))

\* vat.replace(' ', '').replace('-', '')
clean_vat_of(text) == remove_char(remove_char(text, " "), "-")

\* clean_vat.isdigit() and len(clean_vat) == 15
vat_is_15_digits(clean_vat) == isdigit(clean_vat) /\ Len(clean_vat) = 15

\* the loop over required_fields from entry i: "ok" when it runs through,
\* "False" at the first empty or sentinel value, "KeyError" at the first
\* absent key (invoice_data[field])
RECURSIVE check_required(_, _)
check_required(invoice_data, i) ==
    IF i > Len(required_fields) THEN "ok"
    ELSE IF ~has(invoice_data, required_fields[i]) THEN "KeyError"
    ELSE LET value == strip(str(invoice_data[required_fields[i]]))
         IN  IF value = <<>> \/ upper(value) \in SENTINELS THEN "False"
             ELSE check_required(invoice_data, i + 1)

\* the loop over financial_fields from entry i: "found" at the first amount
\* that parses to a number > 0 (break), "none" when the loop runs through,
\* "KeyError" at an absent key reached before that
RECURSIVE scan_amounts(_, _)
scan_amounts(invoice_data, i) ==
    IF i > Len(financial_fields) THEN "none"
    ELSE IF ~has(invoice_data, financial_fields[i]) THEN "KeyError"
    ELSE LET value       == strip(str(invoice_data[financial_fields[i]]))
             clean_value == clean_amount(value)
         IN  IF float_ok(clean_value) /\ float_value(clean_value) > 0
             THEN "found"
             ELSE scan_amounts(invoice_data, i + 1)

is_complete_invoice_data(invoice_data) ==
    LET req == check_required(invoice_data, 1)
    IN  IF req = "KeyError" THEN Raise("KeyError")
        ELSE IF req = "False" THEN Return(FALSE)
        ELSE LET amt == scan_amounts(invoice_data, 1)
             IN  IF amt = "KeyError" THEN Raise("KeyError")
                 ELSE IF amt = "none" THEN Return(FALSE)
                 ELSE LET vat_number    == strip(str(invoice_data["supplier_vat_number"]))
                          clean_vat     == clean_vat_of(vat_number)
                          invoice_date  == strip(str(invoice_data["invoice_date"]))
                          supplier_name == strip(str(invoice_data["supplier_name"]))
                          customer_name == strip(str(invoice_data["customer_name"]))
                      IN  IF ~vat_is_15_digits(clean_vat) THEN Return(FALSE)
                          ELSE IF upper(invoice_date) \in {<<"N", "/", "A">>, <<"N", "A">>}
                               THEN Return(FALSE)
                          ELSE IF Len(supplier_name) < 3 THEN Return(FALSE)
                          ELSE IF Len(customer_name) < 2 THEN Return(FALSE)
                          ELSE Return(TRUE)

\* the loop of filter_complete_results from entry i, complete_results so far
\* in acc; an exception of is_complete_invoice_data leaves the loop
RECURSIVE filter_loop(_, _, _)
filter_loop(results, i, acc) ==
    IF i > Len(results) THEN Return(acc)
    ELSE LET c == is_complete_invoice_data(results[i])
         IN  IF c.exc # "none" THEN Raise(c.exc)
             ELSE filter_loop(results, i + 1,
                              IF c.val THEN Append(acc, results[i]) ELSE acc)

\* filter_complete_results with the loop starting at the second record
filter_complete_results_skip_first(results) ==
    IF results = <<>> THEN Return(<<>>) ELSE filter_loop(results, 2, <<>>)

filter_complete_results(results) ==
    IF results = <<>> THEN Return(<<>>) ELSE filter_loop(results, 1, <<>>)

\* the messages of validate_zatca_compliance, without the values they quote
ERR_VAT == "Invalid VAT number"

WARN_CURRENCY == "Currency is not SAR"

WARN_QR == "No QR code detected - required by ZATCA"

WARN_AMOUNTS == "VAT calculation may be incorrect"

WARN_UNPARSED == "Could not validate VAT calculations"

\* `if vat_number and vat_number != 'N/A'` without the sentinel test
vat_is_checked_sentinel_too(vat_number) == truthy(vat_number)

\* `if vat_number and vat_number != 'N/A'`
vat_is_checked(vat_number) ==
    truthy(vat_number) /\ ~eq_str(vat_number, <<"N", "/", "A">>)

\* the VAT rule that appends the error and leaves is_compliant as it was
vat_rule_keeps_flag(vat_number) ==
    IF vat_is_checked(vat_number) /\ ~vat_is_15_digits(clean_vat_of(str(vat_number)))
    THEN [errors |-> <<ERR_VAT>>, is_compliant |-> TRUE]
    ELSE [errors |-> <<>>, is_compliant |-> TRUE]

\* the VAT rule: what it leaves in errors and is_compliant
vat_rule(vat_number) ==
    IF vat_is_checked(vat_number) /\ ~vat_is_15_digits(clean_vat_of(str(vat_number)))
    THEN [errors |-> <<ERR_VAT>>, is_compliant |-> FALSE]
    ELSE [errors |-> <<>>, is_compliant |-> TRUE]

\* the currency rule: the warnings it appends
currency_rule(currency) ==
    IF truthy(currency) /\ ~eq_str(currency, <<"S", "A", "R">>)
    THEN <<WARN_CURRENCY>> ELSE <<>>

\* the QR rule: the warnings it appends
qr_rule(qr_code_present) ==
    IF ~truthy(qr_code_present) \/ eq_str(qr_code_present, <<"N", "/", "A">>)
    THEN <<WARN_QR>> ELSE <<>>

\* the try block from amount i, the amounts parsed so far in got: a KeyError of
\* invoice_data[...] is not among the exceptions caught; a ValueError of float
\* is caught and ends the block with the 'could not validate' warning
RECURSIVE amount_rule(_, _, _)
amount_rule(invoice_data, i, got) ==
    IF i > Len(financial_fields)
    THEN IF abs((got[1] + got[2]) - got[3]) > 1
         THEN Return(<<WARN_AMOUNTS>>) ELSE Return(<<>>)
    ELSE IF ~has(invoice_data, financial_fields[i]) THEN Raise("KeyError")
    ELSE LET text == clean_amount(str(invoice_data[financial_fields[i]]))
         IN  IF ~float_ok(text) THEN Return(<<WARN_UNPARSED>>)
             ELSE amount_rule(invoice_data, i + 1, Append(got, float_value(text)))

validate_zatca_compliance(invoice_data) ==
    IF ~has(invoice_data, "supplier_vat_number") THEN Raise("KeyError")
    ELSE LET vat_number == invoice_data["supplier_vat_number"]
         IN  IF vat_is_checked(vat_number) /\ vat_number.t # "str"
             THEN Raise("AttributeError")
             ELSE IF ~has(invoice_data, "currency_code") THEN Raise("KeyError")
             ELSE IF ~has(invoice_data, "qr_code_present") THEN Raise("KeyError")
             ELSE LET v == vat_rule(vat_number)
                      a == amount_rule(invoice_data, 1, <<>>)
                  IN  IF a.exc # "none" THEN Raise(a.exc)
                      ELSE Return([is_compliant |-> v.is_compliant,
                                   warnings |-> currency_rule(invoice_data["currency_code"])
                                                \o qr_rule(invoice_data["qr_code_present"])
                                                \o a.val,
                                   errors |-> v.errors])

(***************************************************************************)
(* The invoice validator: one call of is_complete_invoice_data or          *)
(* validate_zatca_compliance on a record, or filter_complete_results on a  *)
(* list and then again on its own output.                                  *)
(***************************************************************************)
Range(f) == {f[i] : i \in DOMAIN f}

\* d with d[key] = value
with_key(d, key, value) ==
    [k \in DOMAIN d \cup {key} |-> IF k = key THEN value ELSE d[k]]

\* d without key
without_key(d, key) == [k \in DOMAIN d \ {key} |-> d[k]]

\* a record as the extraction prompt asks for it, complete and compliant
FULL_RECORD ==
    [invoice_number |-> PyStr(<<"I", "N", "V", "1">>),
     invoice_date |-> PyStr(<<"2", "0", "2", "4", "-", "0", "1", "-", "0", "1">>),
     supplier_name |-> PyStr(<<"A", "c", "m", "e", " ", "C", "o">>),
     supplier_vat_number |-> PyStr(<<"1", "2", "3", "4", "5", "6", "7", "8", "9", "0", "1", "2", "3", "4", "5">>),
     customer_name |-> PyStr(<<"B", "o", "b">>),
     total_amount_excluding_vat |-> PyStr(<<"1", "0", "0">>),
     vat_amount |-> PyStr(<<"1", "5">>),
     total_amount_including_vat |-> PyStr(<<"1", "1", "5">>),
     currency_code |-> PyStr(<<"S", "A", "R">>),
     qr_code_present |-> PyTrue]

\* the same with the "0" sentinel in two amounts and a currency label
LABELLED_RECORD ==
    [FULL_RECORD EXCEPT !.total_amount_excluding_vat = PyStr(<<"0">>),
                        !.vat_amount = PyStr(<<"0">>),
                        !.total_amount_including_vat = PyStr(<<"1", "0", "0", " ", "S", "A", "R">>)]

\* the record of six keys that the specification gives as a complete one
SIX_KEY_RECORD ==
    [invoice_number |-> PyStr(<<"I", "N", "V", "1">>),
     invoice_date |-> PyStr(<<"2", "0", "2", "4", "-", "0", "1", "-", "0", "1">>),
     supplier_name |-> PyStr(<<"A", "c", "m", "e", " ", "C", "o">>),
     supplier_vat_number |-> PyStr(<<"1", "2", "3", "4", "5", "6", "7", "8", "9", "0", "1", "2", "3", "4", "5">>),
     customer_name |-> PyStr(<<"B", "o", "b">>),
     total_amount_including_vat |-> PyStr(<<"1", "0", "0", " ", "S", "A", "R">>)]

\* values that stand in for the reference value of a field
V_NA == PyStr(<<"N", "/", "A">>)

V_na == PyStr(<<"n", "/", "a">>)

V_EMPTY == PyStr(<<>>)

V_12345 == PyStr(<<"1", "2", "3", "4", "5">>)

V_15_SEPARATED == 
    PyStr(<<"1", "2", "3", "4", "5", "-", "6", "7", "8", "9", "0", " ", "1", "2", "3", "4", "5">>)

V_14_DIGITS == 
    PyStr(<<"1", "2", "3", "4", "5", "6", "7", "8", "9", "0", "1", "2", "3", "4">>)

V_16_DIGITS == 
    PyStr(<<"1", "2", "3", "4", "5", "6", "7", "8", "9", "0", "1", "2", "3", "4", "5", "6">>)

V_15_WITH_LETTER == 
    PyStr(<<"1", "2", "3", "4", "5", "6", "7", "8", "9", "0", "1", "2", "3", "4", "X">>)

V_ZERO == PyStr(<<"0">>)

V_1150_SAR == PyStr(<<"1", ",", "1", "5", "0", " ", "S", "A", "R">>)

V_200 == PyStr(<<"2", "0", "0">>)

V_115_25 == PyStr(<<"1", "1", "5", ".", "2", "5">>)

\* the keys is_complete_invoice_data reads, each with its replacement values
CompleteAlternatives ==
    [invoice_number |-> {V_NA, V_EMPTY, PyNone},
     invoice_date |-> {V_na},
     supplier_name |-> {PyStr(<<"A", "B">>), PyStr(<<"n", "u", "l", "l">>)},
     supplier_vat_number |-> {V_12345, V_15_SEPARATED, V_14_DIGITS,
                              V_15_WITH_LETTER, V_NA},
     customer_name |-> {PyStr(<<"B">>), PyStr(<<"B", "o">>)},
     total_amount_excluding_vat |-> {V_ZERO, V_NA, V_1150_SAR},
     vat_amount |-> {V_ZERO, V_NA, V_1150_SAR},
     total_amount_including_vat |-> {V_ZERO, V_NA, V_1150_SAR}]

\* the keys validate_zatca_compliance reads, each with its replacement values
ValidateAlternatives ==
    [supplier_vat_number |-> {V_12345, V_15_SEPARATED, V_14_DIGITS, V_16_DIGITS,
                              V_15_WITH_LETTER, V_NA, V_na, V_EMPTY, PyNone, PyTrue},
     currency_code |-> {PyStr(<<"U", "S", "D">>), V_EMPTY, PyStr(<<"s", "a", "r">>), PyNone},
     qr_code_present |-> {PyFalse, V_NA, PyStr(<<"Y", "e", "s">>)},
     total_amount_excluding_vat |-> {V_ZERO, V_NA, V_1150_SAR, V_200, V_115_25},
     vat_amount |-> {V_ZERO, V_NA, V_1150_SAR, V_200, V_115_25},
     total_amount_including_vat |-> {V_ZERO, V_NA, V_1150_SAR, V_200, V_115_25}]

\* the dicts that differ from d in at most n of the keys: a key is given one
\* of its replacement values alt[key], or removed
RECURSIVE Deviations(_, _, _, _)
Deviations(d, keys, n, alt) ==
    IF keys = {} \/ n = 0 THEN {d}
    ELSE LET k    == CHOOSE x \in keys : TRUE
             rest == keys \ {k}
         IN  Deviations(d, rest, n, alt)
             \cup UNION {Deviations(with_key(d, k, v), rest, n - 1, alt) : v \in alt[k]}
             \cup (IF has(d, k) THEN Deviations(without_key(d, k), rest, n - 1, alt)
                   ELSE {})

\* the records is_complete_invoice_data is called on
CompleteInputs(n) ==
    UNION {Deviations(base, DOMAIN CompleteAlternatives, n, CompleteAlternatives) :
             base \in {FULL_RECORD, LABELLED_RECORD, SIX_KEY_RECORD}}

\* the records validate_zatca_compliance is called on
ValidateInputs(n) ==
    UNION {Deviations(base, DOMAIN ValidateAlternatives, n, ValidateAlternatives) :
             base \in {FULL_RECORD, LABELLED_RECORD}}

\* the records the lists of filter_complete_results are made of: complete
\* ones, incomplete ones, and ones with an absent key
FilterPool ==
    {FULL_RECORD, LABELLED_RECORD, SIX_KEY_RECORD,
     with_key(FULL_RECORD, "supplier_vat_number", V_12345),
     with_key(LABELLED_RECORD, "invoice_number", V_NA),
     without_key(without_key(FULL_RECORD, "vat_amount"), "total_amount_including_vat"),
     without_key(FULL_RECORD, "customer_name")}

RECURSIVE ResultLists(_)
ResultLists(n) ==
    IF n = 0 THEN {<<>>}
    ELSE ResultLists(n - 1)
         \cup {Append(l, r) : l \in ResultLists(n - 1), r \in FilterPool}

InitInvoice ==
    /\ pc = "call"
    /\ \/ /\ fn = "is_complete_invoice_data"
          /\ args \in [invoice_data : CompleteInputs(MaxDeviations)]
       \/ /\ fn = "validate_zatca_compliance"
          /\ args \in [invoice_data : ValidateInputs(MaxDeviations)]
       \/ /\ fn = "filter_complete_results"
          /\ args \in [results : ResultLists(MaxResults)]
    /\ ret = Pending
    /\ passes = 0
    /\ locals = NoLocals
    /\ store = <<>>

call_is_complete_invoice_data ==
    /\ pc = "call"
    /\ fn = "is_complete_invoice_data"
    /\ ret' = is_complete_invoice_data(args.invoice_data)
    /\ pc' = "return"
    /\ UNCHANGED <<fn, args, passes, locals, store>>

call_validate_zatca_compliance ==
    /\ pc = "call"
    /\ fn = "validate_zatca_compliance"
    /\ ret' = validate_zatca_compliance(args.invoice_data)
    /\ pc' = "return"
    /\ UNCHANGED <<fn, args, passes, locals, store>>

call_filter_complete_results ==
    /\ pc = "call"
    /\ fn = "filter_complete_results"
    /\ ret' = filter_complete_results(args.results)
    /\ pc' = "return"
    /\ passes' = 1
    /\ UNCHANGED <<fn, args, locals, store>>

\* filter_complete_results on the list it returned
call_filter_on_own_output ==
    /\ pc = "return"
    /\ fn = "filter_complete_results"
    /\ ret.exc = "none"
    /\ passes < MaxPasses
    /\ ret' = filter_complete_results(ret.val)
    /\ passes' = passes + 1
    /\ UNCHANGED <<pc, fn, args, locals, store>>

NextInvoice ==
    \/ call_is_complete_invoice_data
    \/ call_validate_zatca_compliance
    \/ call_filter_complete_results
    \/ call_filter_on_own_output

SpecInvoice == InitInvoice /\ [][NextInvoice]_vars

(***************************************************************************)
(* Claims about the invoice validator.                                     *)
(***************************************************************************)
\* the text of a field, an absent key counting as empty
FieldText(d, key) == IF has(d, key) THEN strip(str(d[key])) ELSE <<>>

\* the field carries a real value: not empty, not N/A, NA, NULL, NONE
RealValue(d, key) ==
    /\ FieldText(d, key) # <<>>
    /\ upper(FieldText(d, key)) \notin
           {<<"N", "/", "A">>, <<"N", "A">>, <<"N", "U", "L", "L">>, <<"N", "O", "N", "E">>}

\* the amount field parses, 'SAR' and commas removed, to a number > 0
PositiveAmount(d, key) ==
    /\ has(d, key)
    /\ float_ok(strip(remove_char(remove_SAR(str(d[key])), ",")))
    /\ float_value(strip(remove_char(remove_SAR(str(d[key])), ","))) > 0

\* the field is exactly 15 digits once spaces and hyphens are removed
FifteenDigits(text) ==
    LET digits == SelectSeq(text, LAMBDA c : c \notin {" ", "-"})
    IN  Len(digits) = 15 /\ \A i \in DOMAIN digits : digits[i] \in DIGITS

\* conditions (a) to (d) of the completeness contract
ClaimedComplete(d) ==
    /\ \A key \in {"invoice_number", "invoice_date", "supplier_name",
                   "supplier_vat_number", "customer_name"} : RealValue(d, key)
    /\ \E key \in {"total_amount_excluding_vat", "vat_amount",
                   "total_amount_including_vat"} : PositiveAmount(d, key)
    /\ FifteenDigits(FieldText(d, "supplier_vat_number"))
    /\ Len(FieldText(d, "supplier_name")) >= 3
    /\ Len(FieldText(d, "customer_name")) >= 2

IsCompleteCalled == fn = "is_complete_invoice_data" /\ pc = "return"

\* C2 as stated: for every record is_complete_invoice_data returns true
\* exactly when conditions (a) to (d) all hold, and false otherwise.
C2_AsStated ==
    IsCompleteCalled =>
        /\ ret.exc = "none"
        /\ ret.val = ClaimedComplete(args.invoice_data)

\* Whenever is_complete_invoice_data does return, it returns the conjunction.
IsCompleteWhenReturned ==
    (IsCompleteCalled /\ ret.exc = "none") =>
        ret.val = ClaimedComplete(args.invoice_data)

\* C3 as stated: a record with a required field absent or N/A (any case), or
\* with a VAT number that is not 15 digits, yields the value false, no error.
C3_AsStated ==
    (/\ IsCompleteCalled
     /\ \/ \E key \in Range(required_fields) :
              \/ ~has(args.invoice_data, key)
              \/ upper(FieldText(args.invoice_data, key)) = <<"N", "/", "A">>
        \/ ~FifteenDigits(FieldText(args.invoice_data, "supplier_vat_number")))
    => (ret.exc = "none" /\ ret.val = FALSE)

FilterCalled == fn = "filter_complete_results" /\ pc = "return"

\* the records of l that is_complete_invoice_data returns true for, in order
CompleteOnes(l) ==
    SelectSeq(l, LAMBDA r : LET c == is_complete_invoice_data(r)
                            IN  c.exc = "none" /\ c.val)

\* C4 as stated: filter_complete_results returns exactly the subsequence of
\* its input that is_complete_invoice_data is true for, in the input's order.
C4_AsStated ==
    (FilterCalled /\ passes = 1) =>
        /\ ret.exc = "none"
        /\ ret.val = CompleteOnes(args.results)

\* Whenever filter_complete_results does return, it returns that subsequence.
FilterWhenReturned ==
    (FilterCalled /\ passes = 1 /\ ret.exc = "none") =>
        ret.val = CompleteOnes(args.results)

\* C5: filter_complete_results is idempotent: run on the list it returned, it
\* returns that list again (the only step from a returned filter call is the
\* second run, and it leaves the outcome as it was).
C5_Idempotent == [][FilterCalled => ret' = ret]_vars

\* the filter ran twice on a list it had to shorten to a non-empty one
C5_Witness ==
    /\ FilterCalled
    /\ passes = 2
    /\ ret.exc = "none"
    /\ ret.val # <<>>
    /\ Len(ret.val) < Len(args.results)

ValidateReturned == fn = "validate_zatca_compliance" /\ Returned

HasVatError(result) == "Invalid VAT number" \in Range(result.errors)

VatGiven(d) ==
    /\ d["supplier_vat_number"].t = "str"
    /\ d["supplier_vat_number"].s \notin {<<>>, <<"N", "/", "A">>}

C7_CompliantIffNoErrors ==
    ValidateReturned =>
        /\ ret.val.is_compliant <=> (ret.val.errors = <<>>)
        /\ Range(ret.val.errors) \subseteq {"Invalid VAT number"}
        /\ Range(ret.val.warnings) \cap {"Invalid VAT number"} = {}

\* a result with a VAT error (not compliant) that also carries warnings
C7_Witness ==
    /\ ValidateReturned
    /\ ~ret.val.is_compliant
    /\ ret.val.errors # <<>>
    /\ ret.val.warnings # <<>>

\* the VAT, currency and QR rules ran through: their keys exist and the VAT
\* number is a string or null
AmountRuleReached(d) ==
    /\ has(d, "supplier_vat_number")
    /\ has(d, "currency_code")
    /\ has(d, "qr_code_present")
    /\ d["supplier_vat_number"].t \in {"str", "NoneType"}

\* the amount field parses once 'SAR' and commas are removed
ParsedAmount(d, key) ==
    /\ has(d, key)
    /\ float_ok(strip(remove_char(remove_SAR(str(d[key])), ",")))

AmountOf(d, key) == float_value(strip(remove_char(remove_SAR(str(d[key])), ",")))

\* the amount warnings the claim gives a record: 'could not validate' when
\* one of the three does not parse, 'may be incorrect' when all parse and
\* |excl + vat - incl| > 0.01, none otherwise
ClaimedAmountWarnings(d) ==
    IF \E key \in Range(financial_fields) : ~ParsedAmount(d, key)
    THEN <<"Could not validate VAT calculations">>
    ELSE IF abs(AmountOf(d, "total_amount_excluding_vat") + AmountOf(d, "vat_amount")
                - AmountOf(d, "total_amount_including_vat")) > 1
         THEN <<"VAT calculation may be incorrect">>
         ELSE <<>>

AmountWarnings(result) ==
    SelectSeq(result.warnings,
              LAMBDA w : w \in {"Could not validate VAT calculations",
                                "VAT calculation may be incorrect"})

\* C8 as stated: the amount rule never raises and adds exactly one warning in
\* exactly two cases: one amount does not parse, or all parse and differ by
\* more than 0.01.
C8_AsStated ==
    (/\ fn = "validate_zatca_compliance"
     /\ pc = "return"
     /\ AmountRuleReached(args.invoice_data))
    => /\ ret.exc = "none"
       /\ AmountWarnings(ret.val) = ClaimedAmountWarnings(args.invoice_data)

\* Whenever validate_zatca_compliance does return, the amount warnings are the
\* claimed ones.
AmountRuleWhenReturned ==
    ValidateReturned =>
        AmountWarnings(ret.val) = ClaimedAmountWarnings(args.invoice_data)

(***************************************************************************)
(* ContractValidator.                                                      *)
(***************************************************************************)
\* dict.get(key, default)
get(d, key, default) == IF has(d, key) THEN d[key] ELSE default

\* the list as Python reads it: no comma separates the last two literals, and
\* adjacent string literals are one string
required_contract_fields ==
    <<"Contracted_Company", "Contracting_Company", "Contract_Date",
      "Contract_Total_AmountCurrency">>

\* the loop of is_complete_contract_data from entry i; .strip() of a value
\* that is not a string is an AttributeError
RECURSIVE contract_loop(_, _)
contract_loop(contract_data, i) ==
    IF i > Len(required_contract_fields) THEN Return(TRUE)
    ELSE LET got == get(contract_data, required_contract_fields[i], PyStr(<<>>))
         IN  IF got.t # "str" THEN Raise("AttributeError")
             ELSE IF strip(got.s) = <<>> \/ upper(strip(got.s)) = <<"N", "/", "A">>
                  THEN Return(FALSE)
                  ELSE contract_loop(contract_data, i + 1)

is_complete_contract_data(contract_data) == contract_loop(contract_data, 1)

\* the tolerance of the comparison, in SAR
TOLERANCE_SAR == 1000

\* the USD to SAR rate, times 100
USD_RATE_X100 == 375

\* abs(amount - expected_amount) <= 1000
within_tolerance_inclusive(amount, expected_amount) ==
    abs(amount - expected_amount) <= TOLERANCE_SAR * 10000

\* abs(amount - expected_amount) < 1000, both in 1/10000 SAR
within_tolerance(amount, expected_amount) ==
    abs(amount - expected_amount) < TOLERANCE_SAR * 10000

\* is_contract_amount_matching; expected_amount is a number, in hundredths.
\* The AttributeError of .strip() on a currency that is not a string is not
\* among the exceptions caught; the ValueError of float is.
is_contract_amount_matching(contract_data, expected_amount) ==
    LET currency   == get(contract_data, "Currency", PyStr(<<>>))
        amount_str == clean_amount(str(get(contract_data, "Contract_Total_Amount",
                                           PyStr(<<>>))))
    IN  IF currency.t # "str" THEN Raise("AttributeError")
        ELSE IF upper(strip(currency.s)) = <<"S", "A", "R">>
             THEN IF ~float_ok(amount_str) THEN Return(FALSE)
                  ELSE Return(within_tolerance(100 * float_value(amount_str),
                                               100 * expected_amount))
        ELSE IF upper(strip(currency.s)) = <<"U", "S", "D">>
             THEN IF ~float_ok(amount_str) THEN Return(FALSE)
                  ELSE Return(within_tolerance(USD_RATE_X100 * float_value(amount_str),
                                               100 * expected_amount))
        ELSE Return(FALSE)

(***************************************************************************)
(* The contract validator: one call of is_complete_contract_data or of     *)
(* is_contract_amount_matching on a record.                                *)
(***************************************************************************)
CONTRACT_RECORD ==
    [Contracted_Company |-> PyStr(<<"A", " ", "C", "o">>),
     Contracting_Company |-> PyStr(<<"B", " ", "C", "o">>),
     Contract_Date |-> PyStr(<<"2", "0", "2", "4", "-", "0", "1", "-", "0", "1">>),
     Contract_Total_Amount |-> PyStr(<<"1", "0", ",", "5", "0", "0", " ", "S", "A", "R">>),
     Currency |-> PyStr(<<"S", "A", "R">>)]

\* the keys the contract validator reads, and the key its list of required
\* fields names, each with its replacement values
ContractAlternatives ==
    [Contracted_Company |-> {V_NA, V_EMPTY, PyNone},
     Contracting_Company |-> {V_na},
     Contract_Date |-> {V_NA},
     Contract_Total_Amount |->
         {PyStr(<<"1", "0", "5", "0", "0">>), PyStr(<<"2", "8", "0", "0">>),
          PyStr(<<"9", "0", "0", "0">>), PyStr(<<"1", "1", ",", "0", "0", "0", ".", "2", "5">>),
          PyStr(<<"2", "5", "3", "3", ".", "5">>),
          PyStr(<<"1", "0", ",", "5", "0", "0", " ", "s", "a", "r">>),
          PyStr(<<"a", "b", "c">>), V_NA},
     Currency |-> {PyStr(<<" ", "s", "a", "r", " ">>), PyStr(<<"U", "S", "D">>),
                   PyStr(<<"u", "s", "d", " ">>), PyStr(<<"E", "U", "R">>), V_EMPTY, PyNone},
     Contract_Total_AmountCurrency |-> {PyStr(<<"1", "0", ",", "5", "0", "0", " ", "S", "A", "R">>)}]

\* the records the contract validator is called on
ContractInputs(n) ==
    Deviations(CONTRACT_RECORD, DOMAIN ContractAlternatives, n, ContractAlternatives)

\* expected amounts, in hundredths: 10000, 10500, 9500, 9500.25, 11500,
\* 11499.75, 0
ExpectedAmounts == {1000000, 1050000, 950000, 950025, 1150000, 1149975, 0}

InitContract ==
    /\ pc = "call"
    /\ \/ /\ fn = "is_complete_contract_data"
          /\ args \in [contract_data : ContractInputs(MaxDeviations)]
       \/ /\ fn = "is_contract_amount_matching"
          /\ args \in [contract_data : ContractInputs(MaxDeviations),
                     expected_amount : ExpectedAmounts]
    /\ ret = Pending
    /\ passes = 0
    /\ locals = NoLocals
    /\ store = <<>>

call_is_complete_contract_data ==
    /\ pc = "call"
    /\ fn = "is_complete_contract_data"
    /\ ret' = is_complete_contract_data(args.contract_data)
    /\ pc' = "return"
    /\ UNCHANGED <<fn, args, passes, locals, store>>

call_is_contract_amount_matching ==
    /\ pc = "call"
    /\ fn = "is_contract_amount_matching"
    /\ ret' = is_contract_amount_matching(args.contract_data, args.expected_amount)
    /\ pc' = "return"
    /\ UNCHANGED <<fn, args, passes, locals, store>>

NextContract ==
    \/ call_is_complete_contract_data
    \/ call_is_contract_amount_matching

SpecContract == InitContract /\ [][NextContract]_vars

(***************************************************************************)
(* Claims about the contract validator.                                    *)
(***************************************************************************)
\* the contract field is present, a non-empty string, and not N/A in any case
RealContractField(d, key) ==
    /\ has(d, key)
    /\ d[key].t = "str"
    /\ strip(d[key].s) # <<>>
    /\ upper(strip(d[key].s)) # <<"N", "/", "A">>

FiveFieldsReal(d) ==
    \A key \in {"Contracted_Company", "Contracting_Company", "Contract_Date",
                "Contract_Total_Amount", "Currency"} : RealContractField(d, key)

\* C9 as stated: is_complete_contract_data returns true when each of the five
\* fields is present, non-empty and not N/A, false when one of them is not,
\* and requires no other key.
C9_AsStated ==
    (fn = "is_complete_contract_data" /\ Returned) =>
        ret.val = FiveFieldsReal(args.contract_data)

MatchingReturned == fn = "is_contract_amount_matching" /\ Returned

\* the currency of the record, case and surrounding whitespace ignored
CurrencyCode(d) ==
    IF has(d, "Currency") /\ d["Currency"].t = "str"
    THEN upper(strip(d["Currency"].s)) ELSE <<>>

\* the total with 'SAR' and commas stripped
TotalText(d) ==
    IF has(d, "Contract_Total_Amount")
    THEN strip(remove_char(remove_SAR(str(d["Contract_Total_Amount"])), ","))
    ELSE <<>>

\* |amount - expected|, SAR, in hundredths
SarDifference(d, expected) == abs(float_value(TotalText(d)) - expected)

\* |amount * 3.75 - expected|, in 1/10000
UsdDifference(d, expected) == abs(375 * float_value(TotalText(d)) - 100 * expected)

\* C10: for currency SAR (any case, surrounding whitespace ignored) the result
\* is true exactly when the total parses and |amount - expected| < 1000; for
\* USD exactly when it parses and |amount * 3.75 - expected| < 1000; a
\* difference of exactly 1000 is false.
C10_AmountMatching ==
    (fn = "is_contract_amount_matching" /\ pc = "return") =>
        LET d == args.contract_data
            e == args.expected_amount
        IN  /\ CurrencyCode(d) = <<"S", "A", "R">> =>
                 /\ ret.exc = "none"
                 /\ ret.val = (float_ok(TotalText(d)) /\ SarDifference(d, e) < 100000)
            /\ CurrencyCode(d) = <<"U", "S", "D">> =>
                 /\ ret.exc = "none"
                 /\ ret.val = (float_ok(TotalText(d)) /\ UsdDifference(d, e) < 10000000)

\* a USD total whose converted value is exactly 1000 SAR off was refused
C10_Witness ==
    /\ MatchingReturned
    /\ CurrencyCode(args.contract_data) = <<"U", "S", "D">>
    /\ float_ok(TotalText(args.contract_data))
    /\ UsdDifference(args.contract_data, args.expected_amount) = 10000000
    /\ ret.val = FALSE

\* the examples of the contract: '10,500 SAR' against 10000 in SAR and '2800'
\* against 10500 in USD both match
C10_Examples ==
    MatchingReturned =>
        LET d == args.contract_data
        IN  /\ (/\ CurrencyCode(d) = <<"S", "A", "R">>
                /\ has(d, "Contract_Total_Amount")
                /\ d["Contract_Total_Amount"] = CONTRACT_RECORD["Contract_Total_Amount"]
                /\ args.expected_amount = 1000000) => ret.val
            /\ (/\ CurrencyCode(d) = <<"U", "S", "D">>
                /\ has(d, "Contract_Total_Amount")
                /\ str(d["Contract_Total_Amount"]) = <<"2", "8", "0", "0">>
                /\ args.expected_amount = 1050000) => ret.val

\* the currency of the record is SAR or USD, case and whitespace ignored
SupportedCurrency(d) == CurrencyCode(d) \in {<<"S", "A", "R">>, <<"U", "S", "D">>}

\* C11 as stated: is_contract_amount_matching never raises: it returns a
\* boolean for every record, and false whenever the currency is anything other
\* than SAR or USD (missing, null or not a string included) or the amount does
\* not parse as a number.
C11_AsStated ==
    (fn = "is_contract_amount_matching" /\ pc = "return") =>
        /\ ret.exc = "none"
        /\ ret.val \in BOOLEAN
        /\ (\/ ~SupportedCurrency(args.contract_data)
            \/ ~float_ok(TotalText(args.contract_data))) => ret.val = FALSE

\* Whenever the currency is a string (or the key is absent) the function
\* returns, and returns false for an unsupported currency or unparsed amount.
MatchingWhenCurrencyIsText ==
    (/\ fn = "is_contract_amount_matching"
     /\ pc = "return"
     /\ get(args.contract_data, "Currency", PyStr(<<>>)).t = "str") =>
        /\ ret.exc = "none"
        /\ (\/ ~SupportedCurrency(args.contract_data)
            \/ ~float_ok(TotalText(args.contract_data))) => ret.val = FALSE

(***************************************************************************)
(* LLMInvoiceExtractor: the parsing of the oracle's reply.  A reply is a   *)
(* sequence of units: the braces "{" and "}", and stretches of text that   *)
(* hold no brace: "m" a member with a scalar value ("k": "v"), "n" a key   *)
(* and its colon ("k":), "," a comma, "x" any other text.                  *)
(***************************************************************************)
\* longest reply, in units
MaxReply == 5

\* str.find(c): the index, from 0, of the first c in s; -1 when there is none
find(s, c) ==
    IF \E i \in DOMAIN s : s[i] = c
    THEN (CHOOSE i \in DOMAIN s : s[i] = c /\ \A j \in 1..(i - 1) : s[j] # c) - 1
    ELSE 0 - 1

\* str.rfind(c) that stops at the first c
rfind_first_match(s, c) == find(s, c)

\* str.rfind(c): the index, from 0, of the last c in s; -1 when there is none
rfind(s, c) ==
    IF \E i \in DOMAIN s : s[i] = c
    THEN (CHOOSE i \in DOMAIN s : s[i] = c /\ \A j \in (i + 1)..Len(s) : s[j] # c) - 1
    ELSE 0 - 1

\* s[a:b] for 0 <= a
slice(s, a, b) == SubSeq(s, a + 1, IF b > Len(s) THEN Len(s) ELSE b)

\* the outcome of parsing from unit i: the value and the unit after it, or
\* the failure
Parsed(v, next) == [ok |-> TRUE, val |-> v, next |-> next]

ParseError == [ok |-> FALSE, val |-> <<>>, next |-> 0]

\* a JSON object: its members in order, each a scalar member or, under a key,
\* another object
JsonObject(members) == [t |-> "dict", members |-> members]

RECURSIVE parse_object(_, _)
RECURSIVE parse_members(_, _, _)
\* the members of an object from unit i, those before in acc, up to its "}"
parse_members(s, i, acc) ==
    LET item == IF i > Len(s) THEN ParseError
                ELSE IF s[i] = "m" THEN Parsed("m", i + 1)
                ELSE IF s[i] = "n" THEN parse_object(s, i + 1)
                ELSE ParseError
    IN  IF ~item.ok \/ item.next > Len(s) THEN ParseError
        ELSE IF s[item.next] = ","
             THEN parse_members(s, item.next + 1, Append(acc, item.val))
        ELSE IF s[item.next] = "}"
             THEN Parsed(JsonObject(Append(acc, item.val)), item.next + 1)
        ELSE ParseError

\* an object that opens at unit i
parse_object(s, i) ==
    IF i + 1 > Len(s) \/ s[i] # "{" THEN ParseError
    ELSE IF s[i + 1] = "}" THEN Parsed(JsonObject(<<>>), i + 2)
    ELSE parse_members(s, i + 1, <<>>)

\* json.loads(json_str) of a text that opens with "{": the object, when the
\* text is one object and nothing else; JSONDecodeError otherwise
json_loads(json_str) ==
    LET p == parse_object(json_str, 1)
    IN  IF p.ok /\ p.next = Len(json_str) + 1 THEN Return(p.val)
        ELSE Raise("JSONDecodeError")

\* the body of the try block after the oracle answered: response is the
\* oracle's outcome, [failed] or [text]
parse_response(response) ==
    IF response.failed THEN Raise("APIError")
    ELSE LET response_text == strip(response.text)
             json_start    == find(response_text, "{")
             json_end      == rfind(response_text, "}") + 1
         IN  IF json_start >= 0 /\ json_end > json_start
             THEN json_loads(slice(response_text, json_start, json_end))
             ELSE Return(PyNone)

\* try: ... except Exception: return None
extract_invoice_info_simple(response) ==
    LET r == parse_response(response)
    IN  IF r.exc # "none" THEN Return(PyNone) ELSE r

\* the same parsing, after the request that hands the oracle a document URI
extract_invoice_info_uri(response) ==
    LET r == parse_response(response)
    IN  IF r.exc # "none" THEN Return(PyNone) ELSE r

ReplyUnits == {"{", "}", "m", "n", ",", "x"}

RECURSIVE Replies(_)
Replies(n) ==
    IF n = 0 THEN {<<>>}
    ELSE Replies(n - 1)
         \cup {Append(r, u) : r \in {q \in Replies(n - 1) : Len(q) = n - 1},
                              u \in ReplyUnits}

\* what the oracle may do: fail, or answer any text
Responses(n) ==
    {[failed |-> TRUE, text |-> <<>>]}
    \cup {[failed |-> FALSE, text |-> r] : r \in Replies(n)}

InitExtract ==
    /\ pc = "call"
    /\ fn \in {"extract_invoice_info_simple", "extract_invoice_info_uri"}
    /\ args \in [response : Responses(MaxReply)]
    /\ ret = Pending
    /\ passes = 0
    /\ locals = NoLocals
    /\ store = <<>>

call_extract_invoice_info_simple ==
    /\ pc = "call"
    /\ fn = "extract_invoice_info_simple"
    /\ ret' = extract_invoice_info_simple(args.response)
    /\ pc' = "return"
    /\ UNCHANGED <<fn, args, passes, locals, store>>

call_extract_invoice_info_uri ==
    /\ pc = "call"
    /\ fn = "extract_invoice_info_uri"
    /\ ret' = extract_invoice_info_uri(args.response)
    /\ pc' = "return"
    /\ UNCHANGED <<fn, args, passes, locals, store>>

NextExtract ==
    \/ call_extract_invoice_info_simple
    \/ call_extract_invoice_info_uri

SpecExtract == InitExtract /\ [][NextExtract]_vars

(***************************************************************************)
(* Claims about the extraction client.                                     *)
(***************************************************************************)
ExtractCalled ==
    /\ fn \in {"extract_invoice_info_simple", "extract_invoice_info_uri"}
    /\ pc = "return"

\* the positions of the unit u in the reply
PositionsOf(text, u) == {i \in DOMAIN text : text[i] = u}

Least(S) == CHOOSE x \in S : \A y \in S : x <= y

Greatest(S) == CHOOSE x \in S : \A y \in S : x >= y

\* the "}" of the reply that come after its first "{"
ClosesAfterFirstOpen(text) ==
    {j \in PositionsOf(text, "}") : j > Least(PositionsOf(text, "{"))}

\* the reply from its first "{" to its last "}"
BracedPart(text) ==
    SubSeq(text, Least(PositionsOf(text, "{")), Greatest(PositionsOf(text, "}")))

\* what the claim gives a response: null for a failed call, a reply without
\* "{", without "}" after the first "{", or whose braced part is not valid
\* JSON; the object parsed from the braced part otherwise
ClaimedExtraction(response) ==
    IF response.failed THEN PyNone
    ELSE IF PositionsOf(response.text, "{") = {} THEN PyNone
    ELSE IF ClosesAfterFirstOpen(response.text) = {} THEN PyNone
    ELSE IF json_loads(BracedPart(response.text)).exc # "none" THEN PyNone
    ELSE json_loads(BracedPart(response.text)).val

\* C12: the response parsing never raises: for every reply, and for an oracle
\* call that fails, the extractor returns the JSON object parsed from the
\* substring from the first "{" to the last "}", or null when there is no
\* "{", no "}" after the first "{", or that substring is not valid JSON.
C12_ParsingNeverRaises ==
    ExtractCalled =>
        /\ ret.exc = "none"
        /\ ret.val = ClaimedExtraction(args.response)

\* an object was returned from a reply with text before its first "{" and
\* text after its last "}"
C12_Witness ==
    /\ ExtractCalled
    /\ fn = "extract_invoice_info_simple"
    /\ ret.exc = "none"
    /\ ret.val # PyNone
    /\ ~args.response.failed
    /\ Head(args.response.text) = "x"
    /\ args.response.text[Len(args.response.text)] = "x"
    /\ ret.val.members # <<>>

(***************************************************************************)
(* FileConverter: compress_image_for_api and pil_to_base64.  An image is   *)
(* [width, height, density].  The JPEG encoder is a library: the size of   *)
(* its output is modelled as growing with the pixels and with the quality, *)
(* width * height * density * quality, in units of 0.01 MB; density is the *)
(* image's own share in it (how badly its content compresses).             *)
(***************************************************************************)
\* longest side of an input image, in pixels
MaxSide == 3

\* largest density of an input image
MaxDensity == 6

\* max_size_mb = 4.5, the default, in units of 0.01 MB
DEFAULT_MAX_SIZE == 450

\* quality = 95
START_QUALITY == 95

\* current_image.save(buffer, format='JPEG', quality=quality, optimize=True);
\* len(buffer.getvalue())
jpeg_size(image, quality) == image.width * image.height * image.density * quality

\* current_size <= 2 * max_size_bytes
fits_within_double(current_size, max_size_bytes) == current_size <= 2 * max_size_bytes

\* current_size <= max_size_bytes
fits(current_size, max_size_bytes) == current_size <= max_size_bytes

\* int(side * 0.8)
four_fifths(side) == (side * 8) \div 10

\* int(side * 0.5)
half(side) == side \div 2

\* image.resize((int(width * num), int(height * num))): Pillow refuses a side
\* below 1 with ValueError('height and width must be > 0')
resize(image, new_width, new_height) ==
    IF new_width < 1 \/ new_height < 1 THEN Raise("ValueError")
    ELSE Return([image EXCEPT !.width = new_width, !.height = new_height])

\* the frame at line 86: the copy of the image, quality 95, nothing measured
compress_entry(pil_image) ==
    [quality |-> START_QUALITY, current_image |-> pil_image, current_size |-> 0,
     attempts |-> 0, aggressive |-> FALSE]

\* one test of `while quality > 20` and what follows it: an encoding attempt
\* (return, lower quality, or resize and quality 80) or, the loop left, the
\* final halving.  The outcome is [frame, done, ret].
compress_step(frame, max_size_bytes) ==
    IF frame.quality > 20
    THEN LET current_size == jpeg_size(frame.current_image, frame.quality)
             measured     == [frame EXCEPT !.current_size = current_size,
                                           !.attempts = @ + 1]
             quality      == frame.quality - 10
         IN  IF fits(current_size, max_size_bytes)
             THEN [frame |-> measured, done |-> TRUE,
                   ret |-> Return(frame.current_image)]
             ELSE IF quality <= 30
             THEN LET resized == resize(frame.current_image,
                                        four_fifths(frame.current_image.width),
                                        four_fifths(frame.current_image.height))
                  IN  IF resized.exc # "none"
                      THEN [frame |-> [measured EXCEPT !.quality = quality],
                            done |-> TRUE, ret |-> resized]
                      ELSE [frame |-> [measured EXCEPT !.current_image = resized.val,
                                                       !.quality = 80],
                            done |-> FALSE, ret |-> Pending]
             ELSE [frame |-> [measured EXCEPT !.quality = quality],
                   done |-> FALSE, ret |-> Pending]
    ELSE [frame |-> [frame EXCEPT !.aggressive = TRUE], done |-> TRUE,
          ret |-> resize(frame.current_image, half(frame.current_image.width),
                         half(frame.current_image.height))]

\* compressed_image.save(buffer, format='JPEG', quality=85, optimize=True);
\* base64.b64encode(buffer.getvalue()): the bytes encoded and the characters
\* of their base64 text
pil_to_base64_encode(compressed_image) ==
    LET jpeg_bytes == jpeg_size(compressed_image, 85)
    IN  [jpeg_bytes |-> jpeg_bytes, base64_chars |-> 4 * ((jpeg_bytes + 2) \div 3)]

Images(side, density) ==
    [width : 1..side, height : 1..side, density : 1..density]

\* budgets: nothing fits, little fits, the default, everything fits
Budgets == {0, 100, DEFAULT_MAX_SIZE, 100 * MaxSide * MaxSide * MaxDensity}

InitCompress ==
    /\ pc = "call"
    /\ \/ /\ fn = "compress_image_for_api"
          /\ args \in [pil_image : Images(MaxSide, MaxDensity), max_size_bytes : Budgets]
       \/ /\ fn = "pil_to_base64"
          /\ args \in [pil_image : Images(MaxSide, MaxDensity),
                     max_size_bytes : {DEFAULT_MAX_SIZE}]
    /\ ret = Pending
    /\ passes = 0
    /\ locals = NoLocals
    /\ store = <<>>

\* compress_image_for_api is entered, by its caller or by pil_to_base64
call_compress_image_for_api ==
    /\ pc = "call"
    /\ fn \in {"compress_image_for_api", "pil_to_base64"}
    /\ locals' = compress_entry(args.pil_image)
    /\ pc' = "loop"
    /\ UNCHANGED <<fn, args, ret, passes, store>>

\* one turn of the loop; when it ends the call, the outcome goes to the
\* caller, or to pil_to_base64 at its line 40
loop_compress_image_for_api ==
    /\ pc = "loop"
    /\ fn \in {"compress_image_for_api", "pil_to_base64"}
    /\ LET step == compress_step(locals, args.max_size_bytes)
       IN  /\ locals' = step.frame
           /\ ret' = step.ret
           /\ pc' = IF ~step.done THEN "loop"
                    ELSE IF fn = "pil_to_base64" /\ step.ret.exc = "none"
                         THEN "compressed"
                         ELSE "return"
    /\ UNCHANGED <<fn, args, passes, store>>

\* pil_to_base64 after compress_image_for_api returned
return_pil_to_base64 ==
    /\ pc = "compressed"
    /\ fn = "pil_to_base64"
    /\ ret' = Return(pil_to_base64_encode(ret.val))
    /\ pc' = "return"
    /\ UNCHANGED <<fn, args, passes, locals, store>>

NextCompress ==
    \/ call_compress_image_for_api
    \/ loop_compress_image_for_api
    \/ return_pil_to_base64

\* the interpreter goes on running the call: a step that can be taken is taken
SpecCompress == InitCompress /\ [][NextCompress]_vars /\ WF_vars(NextCompress)

(***************************************************************************)
(* Claims about the image compressor.                                      *)
(***************************************************************************)
CompressCalled == fn = "compress_image_for_api"

\* C13 as stated: compress_image_for_api terminates for every image and
\* budget: the loop reaches a return, also for an image whose encoded size
\* never falls under the budget.
C13_AsStated == CompressCalled ~> (pc = "return" /\ ret.exc = "none")

\* The call is over after finitely many steps, by a return or an exception.
CompressEnds == CompressCalled ~> (pc = "return")

\* The encoding attempts of one call are bounded: 7 before the first resize,
\* 5 after each resize, and a side can shrink fewer times than it has pixels.
AttemptsBounded ==
    (CompressCalled /\ pc # "call") =>
        locals.attempts <= 7 + 5 * MaxSide

\* Whenever the call is over and did not return, nothing ever fit the budget
\* and it was the resize that raised.
CompressRaisesOnlyFromResize ==
    (CompressCalled /\ pc = "return" /\ ret.exc # "none") =>
        /\ ret.exc = "ValueError"
        /\ locals.current_size > args.max_size_bytes
        /\ ~locals.aggressive

\* C14: whenever compress_image_for_api returns, the JPEG encoding of the
\* image it returns was measured at a size <= max_size_bytes, or the image
\* went through the final step that halves both sides; there is no other
\* return.
C14_ReturnWithinBudgetOrHalved ==
    (CompressCalled /\ Returned) =>
        \/ /\ ~locals.aggressive
           /\ locals.attempts >= 1
           /\ ret.val = locals.current_image
           /\ locals.current_size
                  = ret.val.width * ret.val.height * ret.val.density * locals.quality
           /\ locals.current_size <= args.max_size_bytes
        \/ /\ locals.aggressive
           /\ ret.val.width = locals.current_image.width \div 2
           /\ ret.val.height = locals.current_image.height \div 2

\* a return of an image that had to be resized before an encoding fit
C14_Witness ==
    /\ CompressCalled
    /\ Returned
    /\ ret.val.width < args.pil_image.width
    /\ locals.attempts > 7
    /\ locals.current_size <= args.max_size_bytes

\* C15 as stated: every EncodedImage of pil_to_base64 keeps the budget:
\* whenever compress_image_for_api accepted the image, at whatever quality
\* from 95 down to 35, the bytes pil_to_base64 encodes are <= the budget.
C15_AsStated ==
    (fn = "pil_to_base64" /\ Returned) =>
        ret.val.jpeg_bytes <= args.max_size_bytes

\* The bytes keep the budget whenever the image was accepted at a quality of
\* 85 or more.
EncodedWithinBudgetFrom85 ==
    (fn = "pil_to_base64" /\ Returned /\ locals.quality >= 85) =>
        ret.val.jpeg_bytes <= args.max_size_bytes

(***************************************************************************)
(* InvoiceProcessor.process_invoice_base64_images.  The oracle is outside  *)
(* the program: what extract_invoice_info_simple returns for each page is  *)
(* an input, null or a dict.                                               *)
(***************************************************************************)
\* pages of one document
MaxPages == 2

\* str(i) for a page number
DECIMALS == <<"1", "2", "3", "4", "5", "6", "7", "8", "9">>

PyInt(i) == [t |-> "int", s |-> <<DECIMALS[i]>>]

\* datetime.now().isoformat(): the clock is not modelled, every call reads
\* the same instant
NOW == PyStr(<<"2", "0", "2", "4", "-", "0", "1", "-", "0", "1", "T", "0", "0">>)

PyDict(d) == [t |-> "dict", s |-> <<>>, d |-> d]

\* the truth value of what the extractor returned: null and {} are false
extracted_truthy(invoice_data) == invoice_data # PyNone /\ DOMAIN invoice_data # {}

\* lines 45-47: the three keys the processor adds to the record
annotate(invoice_data, page_number, validation) ==
    with_key(with_key(with_key(invoice_data, "page_number", PyInt(page_number)),
                      "processed_at", NOW),
             "zatca_validation", PyDict(validation))

\* the loop over the pages from page i, results so far in results: a null or
\* empty extraction is skipped; an exception of validate_zatca_compliance is
\* caught by the except of the page and the page is left out
RECURSIVE pages_loop(_, _, _)
pages_loop(extracted, i, results) ==
    IF i > Len(extracted) THEN results
    ELSE IF ~extracted_truthy(extracted[i]) THEN pages_loop(extracted, i + 1, results)
    ELSE LET validation == validate_zatca_compliance(extracted[i])
         IN  IF validation.exc # "none" THEN pages_loop(extracted, i + 1, results)
             ELSE pages_loop(extracted, i + 1,
                             Append(results, annotate(extracted[i], i, validation.val)))

\* process_invoice_base64_images; extracted[i] is what the extractor returns
\* for base64_images[i].  filter_complete_results runs after the loop,
\* outside every try.
process_invoice_base64_images(base64_images, extracted) ==
    IF base64_images = <<>> THEN Return(<<>>)
    ELSE filter_complete_results(pages_loop(extracted, 1, <<>>))

\* what the oracle may return for a page: nothing, an empty object, complete
\* records, the six-key record, records with a key missing, an incomplete one
ExtractionPool ==
    {PyNone, <<>>, FULL_RECORD, LABELLED_RECORD, SIX_KEY_RECORD,
     without_key(FULL_RECORD, "invoice_number"),
     with_key(FULL_RECORD, "supplier_vat_number", V_12345),
     with_key(FULL_RECORD, "total_amount_including_vat", V_1150_SAR)}

RECURSIVE Extractions(_)
Extractions(n) ==
    IF n = 0 THEN {<<>>}
    ELSE Extractions(n - 1)
         \cup {Append(l, r) : l \in {q \in Extractions(n - 1) : Len(q) = n - 1},
                              r \in ExtractionPool}

\* the pages of a document of n pages
Pages(n) == [i \in 1..n |-> "page"]

\* lines 81-82: the two keys process_invoice_uri adds to the record
annotate_uri(invoice_data, validation) ==
    with_key(with_key(invoice_data, "processed_at", NOW),
             "zatca_validation", PyDict(validation))

\* filter_complete_results called with one record instead of a list: the loop
\* runs over the keys of the dict, and is_complete_invoice_data of a key
\* subscripts a str with a str, a TypeError
filter_complete_results_of_record(invoice_data) ==
    IF DOMAIN invoice_data = {} THEN Return(<<>>) ELSE Raise("TypeError")

\* lines 74-86, the body of the try: the record is printed with its total (a
\* KeyError when the key is absent), validated, annotated and handed over to
\* filter_complete_results as it is, not in a list
process_invoice_uri_try(invoice_data) ==
    IF ~extracted_truthy(invoice_data) THEN Return(<<>>)
    ELSE IF ~has(invoice_data, "total_amount_including_vat") THEN Raise("KeyError")
    ELSE LET validation == validate_zatca_compliance(invoice_data)
         IN  IF validation.exc # "none" THEN validation
             ELSE filter_complete_results_of_record(
                      annotate_uri(invoice_data, validation.val))

\* process_invoice_uri; extracted is what the extractor returns for the uri;
\* the except of lines 88-90 turns every exception into []
process_invoice_uri(uri, extracted) ==
    IF ~truthy(uri) THEN Return(<<>>)
    ELSE LET body == process_invoice_uri_try(extracted)
         IN  IF body.exc # "none" THEN Return(<<>>) ELSE body

\* the uri of the document: none, empty, or an address
Uris == {PyNone, PyStr(<<>>), PyStr(<<"u">>)}

InitProcessor ==
    /\ pc = "call"
    /\ \/ /\ fn = "process_invoice_base64_images"
          /\ \E extracted \in Extractions(MaxPages) :
                 args = [base64_images |-> Pages(Len(extracted)),
                         extracted |-> extracted]
       \/ /\ fn = "process_invoice_uri"
          /\ args \in [uri : Uris, extracted : ExtractionPool]
    /\ ret = Pending
    /\ passes = 0
    /\ locals = NoLocals
    /\ store = <<>>

call_process_invoice_base64_images ==
    /\ pc = "call"
    /\ fn = "process_invoice_base64_images"
    /\ ret' = process_invoice_base64_images(args.base64_images, args.extracted)
    /\ pc' = "return"
    /\ UNCHANGED <<fn, args, passes, locals, store>>

call_process_invoice_uri ==
    /\ pc = "call"
    /\ fn = "process_invoice_uri"
    /\ ret' = process_invoice_uri(args.uri, args.extracted)
    /\ pc' = "return"
    /\ UNCHANGED <<fn, args, passes, locals, store>>

NextProcessor ==
    \/ call_process_invoice_base64_images
    \/ call_process_invoice_uri

SpecProcessor == InitProcessor /\ [][NextProcessor]_vars

(***************************************************************************)
(* Claims about the invoice processor.                                     *)
(***************************************************************************)
ProcessorCalled == fn = "process_invoice_base64_images" /\ pc = "return"

\* the extraction of the page succeeded: it is not null
ExtractionSucceeded(extracted, i) == extracted[i] # PyNone

\* the pages, in order, whose extraction succeeded and gave a complete record
CompletePages(extracted) ==
    SelectSeq([i \in DOMAIN extracted |-> i],
              LAMBDA i : /\ ExtractionSucceeded(extracted, i)
                         /\ ClaimedComplete(extracted[i]))

\* the record is the extracted one with page_number = page added (and the
\* other keys the processor adds)
AnnotatedFrom(result, record, page) ==
    /\ DOMAIN record \subseteq DOMAIN result
    /\ \A key \in DOMAIN record : result[key] = record[key]
    /\ "page_number" \in DOMAIN result
    /\ result["page_number"] = [t |-> "int", s |-> <<DECIMALS[page]>>]

\* C18 as stated: a page whose extraction is null is skipped and the other
\* pages are still processed: the call returns the complete records of
\* exactly the pages whose extraction succeeded, in order, each with
\* page_number the index from 1 of its page.
C18_AsStated ==
    ProcessorCalled =>
        /\ ret.exc = "none"
        /\ Len(ret.val) = Len(CompletePages(args.extracted))
        /\ \A k \in DOMAIN ret.val :
               AnnotatedFrom(ret.val[k],
                             args.extracted[CompletePages(args.extracted)[k]],
                             CompletePages(args.extracted)[k])

\* the keys validate_zatca_compliance and is_complete_invoice_data read
KeysRead ==
    {"invoice_number", "invoice_date", "supplier_name", "supplier_vat_number",
     "customer_name", "total_amount_excluding_vat", "vat_amount",
     "total_amount_including_vat", "currency_code", "qr_code_present"}

\* Whenever every extracted record has all the keys the validator reads, the
\* call returns what the claim says.
PagesWhenKeysPresent ==
    (/\ ProcessorCalled
     /\ \A i \in DOMAIN args.extracted :
            \/ ~extracted_truthy(args.extracted[i])
            \/ KeysRead \subseteq DOMAIN args.extracted[i])
    => /\ ret.exc = "none"
       /\ Len(ret.val) = Len(CompletePages(args.extracted))
       /\ \A k \in DOMAIN ret.val :
              AnnotatedFrom(ret.val[k],
                            args.extracted[CompletePages(args.extracted)[k]],
                            CompletePages(args.extracted)[k])

\* The example of the claim: page 1 complete and page 2 null give exactly one
\* result, with page_number 1.
PageOneOfTwo ==
    (/\ ProcessorCalled
     /\ Len(args.extracted) = 2
     /\ args.extracted[1] = FULL_RECORD
     /\ args.extracted[2] = PyNone)
    => /\ ret.exc = "none"
       /\ Len(ret.val) = 1
       /\ ret.val[1]["page_number"].s = <<"1">>

(***************************************************************************)
(* The reconciliation drivers, invoiceProcess and contractProcess, with    *)
(* FileProcessor.process_file_from_uri and process_contract.  What is      *)
(* outside the program is an input, fixed per project: document says what  *)
(* the download gives, how many pages the PDF converts to and what the     *)
(* oracle extracts from each page; store_up says whether the project store *)
(* answers the write-back.  locals.events lists, in order, the calls of    *)
(* the oracle, the write-backs made and the time.sleep(60) pauses taken.   *)
(***************************************************************************)
\* projects returned by get_previous_projects
MaxProjects == 2

\* requests.get(...) and raise_for_status(): the content, or None on a
\* timeout or a status that is not 2xx
download_file_from_uri(document) ==
    IF document.fetch = "ok" THEN Return(document.content) ELSE Return(PyNone)

\* process_file_from_uri: None.startswith is an AttributeError; `images` is
\* bound only on the pdf path; a pdf that converts to no image gives the
\* tuple (file_type, None)
process_file_from_uri(document) ==
    LET file_content == download_file_from_uri(document).val
    IN  IF document.fetch # "ok" THEN Raise("AttributeError")
        ELSE LET file_type == detect_file_type(file_content)
             IN  IF file_type = "pdf"
                 THEN IF document.pages = 0 THEN Return(<<"pdf", PyNone>>)
                      ELSE Return(Pages(document.pages))
                 ELSE Raise("UnboundLocalError")

\* the default of invoice.get('total_amount_including_vat', 0)
INT_ZERO == [t |-> "int", s |-> <<"0">>]

\* float(v): a str is parsed as it is, None is a TypeError
to_float(v) ==
    IF v.t = "str"
    THEN IF float_ok(v.s) THEN Return(float_value(v.s)) ELSE Raise("ValueError")
    ELSE IF v.t = "int" THEN Return(100 * digits_value(v.s))
    ELSE Raise("TypeError")

\* sum(float(invoice.get('total_amount_including_vat', 0)) for invoice in
\* invoices), from invoice i with acc summed so far
RECURSIVE sum_totals(_, _, _)
sum_totals(invoices, i, acc) ==
    IF i > Len(invoices) THEN Return(acc)
    ELSE LET f == to_float(get(invoices[i], "total_amount_including_vat", INT_ZERO))
         IN  IF f.exc # "none" THEN f ELSE sum_totals(invoices, i + 1, acc + f.val)

\* lines 39-42 of invoiceProcess
total_amount_of(invoices) ==
    IF Len(invoices) > 1 THEN sum_totals(invoices, 1, 0)
    ELSE IF invoices # <<>>
         THEN to_float(get(invoices[1], "total_amount_including_vat", INT_ZERO))
         ELSE Return(0)

\* update_project_verification(self, project_id, file_verified,
\* verification_comment): a call that leaves verification_comment out is a
\* TypeError; the update itself fails when the store does
update_project_verification(call, store_up) ==
    IF "verification_comment" \notin DOMAIN call THEN Raise("TypeError")
    ELSE IF ~store_up THEN Raise("APIError")
    ELSE Return([id |-> call.project_id, file_verified |-> call.file_verified,
                 verification_comment |-> call.verification_comment])

\* the row the call writes, as a list of no or one row
rows_written(write) == IF write.exc = "none" THEN <<write.val>> ELSE <<>>

NoTotal == [set |-> FALSE, val |-> 0]

\* what a turn did for the project: "oracle", "write" or "pause"
event(e, project) == [e |-> e, id |-> project.id]

\* time.sleep(60), line 49: reached when the write-back did not raise
sleep_after(write, project) ==
    IF write.exc = "none" THEN <<event("pause", project)>> ELSE <<>>

\* the write-back as an event, when it was made
write_event(write, project) ==
    IF write.exc = "none" THEN <<event("write", project)>> ELSE <<>>

\* one turn of the loop of invoiceProcess, lines 37-49: the exception that
\* leaves it, if any, the total it computed, the rows it wrote
invoice_turn(project) ==
    LET base64_images == process_file_from_uri(project.document)
    IN  IF base64_images.exc # "none"
        THEN [ret |-> base64_images, total_amount |-> NoTotal, rows |-> <<>>,
              events |-> <<>>]
        ELSE LET invoices == process_invoice_base64_images(base64_images.val,
                                                           project.document.extracted)
             IN  IF invoices.exc # "none"
                 THEN [ret |-> invoices, total_amount |-> NoTotal, rows |-> <<>>,
                       events |-> <<event("oracle", project)>>]
                 ELSE LET total_amount == total_amount_of(invoices.val)
                      IN  IF total_amount.exc # "none"
                          THEN [ret |-> total_amount, total_amount |-> NoTotal,
                                rows |-> <<>>,
                                events |-> <<event("oracle", project)>>]
                          ELSE LET write == update_project_verification(
                                       [project_id |-> project.id,
                                        file_verified |->
                                            total_amount.val = project.total_amount_including_vat],
                                       project.store_up)
                               IN  [ret |-> IF write.exc # "none" THEN write ELSE Pending,
                                    total_amount |-> [set |-> TRUE, val |-> total_amount.val],
                                    rows |-> rows_written(write),
                                    events |-> <<event("oracle", project)>>
                                               \o write_event(write, project)
                                               \o sleep_after(write, project)]

\* GemeniLLMContractInfoExtractor.extract_invoice_info_uri: httpx.get of
\* something that is not a str raises inside the try, and the except returns
\* None; otherwise what the oracle parsed, or None
gemeni_extract_invoice_info_uri(file_uri, parsed) ==
    IF file_uri.t # "str" THEN PyNone ELSE parsed

\* ContractProcessing.extract_contract_info_uri(uri): [contract_data] or []
extract_contract_info_uri(uri, parsed) ==
    LET contract_data == gemeni_extract_invoice_info_uri(uri, parsed)
    IN  IF contract_data # PyNone THEN <<contract_data>> ELSE <<>>

\* process_contract without the check of lines 48-50
process_contract_unchecked(project) == Raise("AttributeError")

\* process_contract(project_data): the project record itself is handed over
\* as the uri; the class has no method compare_contract_info
process_contract(project) ==
    LET contract_results == extract_contract_info_uri(PyDict(project),
                                                      project.document.contract)
    IN  IF contract_results = <<>>
        THEN Return([is_valid |-> FALSE, contract_data |-> PyNone])
        ELSE Raise("AttributeError")

\* one turn of the loop of contractProcess, lines 66-72: the extractor is
\* called, the verdict is written, and the loop goes on without a pause
contract_turn(project) ==
    LET contracts == process_contract(project)
    IN  IF contracts.exc # "none"
        THEN [ret |-> contracts, total_amount |-> NoTotal, rows |-> <<>>,
              events |-> <<event("oracle", project)>>]
        ELSE LET write ==
                     IF contracts.val.is_valid
                     THEN update_project_verification(
                              [project_id |-> project.id,
                               file_verified |-> contracts.val.is_valid,
                               verification_comment |-> contracts.val.reason],
                              project.store_up)
                     ELSE update_project_verification(
                              [project_id |-> project.id,
                               file_verified |-> FALSE,
                               verification_comment |-> "Invalid contract data"],
                              project.store_up)
             IN  [ret |-> IF write.exc # "none" THEN write ELSE Pending,
                  total_amount |-> NoTotal,
                  rows |-> rows_written(write),
                  events |-> <<event("oracle", project)>>
                             \o write_event(write, project)]

\* a complete record whose total does not parse at all
RECORD_ABC == with_key(FULL_RECORD, "total_amount_including_vat",
                       PyStr(<<"a", "b", "c">>))

\* a complete record whose total carries a separator and the currency label
RECORD_1150 == with_key(FULL_RECORD, "total_amount_including_vat", V_1150_SAR)

Document(fetch, content, pages, extracted, contract) ==
    [fetch |-> fetch, content |-> content, pages |-> pages,
     extracted |-> extracted, contract |-> contract]

\* a PDF of Len(extracted) pages
PdfDocument(extracted) ==
    Document("ok", SIG_PDF \o <<45, 49>>, Len(extracted), extracted, PyNone)

\* what a file_uri may lead to: a timeout, a status that is not 2xx, bytes of
\* no known kind, an image, a PDF that converts to no page (the oracle then
\* gets 'pdf' and None and extracts nothing), and PDFs of one or two pages
Documents ==
    {Document("timeout", <<>>, 0, <<>>, PyNone),
     Document("http_error", <<>>, 0, <<>>, PyNone),
     Document("ok", <<0, 1, 2>>, 0, <<>>, PyNone),
     Document("ok", SIG_PNG, 0, <<>>, PyNone),
     Document("ok", SIG_PDF, 0, <<PyNone, PyNone>>, CONTRACT_RECORD),
     PdfDocument(<<FULL_RECORD>>),
     PdfDocument(<<FULL_RECORD, PyNone>>),
     PdfDocument(<<FULL_RECORD, FULL_RECORD>>),
     PdfDocument(<<RECORD_1150>>),
     PdfDocument(<<RECORD_ABC>>),
     PdfDocument(<<PyNone>>)}

\* the rows of the project store, the id left open; totals are in hundredths
ProjectPool ==
    {[file_uri |-> PyStr(<<"u">>), total_amount_including_vat |-> 11500,
      document |-> d, store_up |-> TRUE] : d \in Documents}
    \cup {[file_uri |-> PyStr(<<"u">>), total_amount_including_vat |-> 115000,
           document |-> PdfDocument(<<RECORD_1150>>), store_up |-> TRUE],
          [file_uri |-> PyStr(<<"u">>), total_amount_including_vat |-> 0,
           document |-> PdfDocument(<<PyNone>>), store_up |-> TRUE],
          [file_uri |-> PyStr(<<"u">>), total_amount_including_vat |-> 11500,
           document |-> PdfDocument(<<FULL_RECORD>>), store_up |-> FALSE]}

\* the project with its id
with_id(project, id) ==
    [id |-> id, file_uri |-> project.file_uri,
     total_amount_including_vat |-> project.total_amount_including_vat,
     document |-> project.document, store_up |-> project.store_up]

\* get_previous_projects(): lists of up to n projects, the ids 1, 2, ...
RECURSIVE ProjectLists(_)
ProjectLists(n) ==
    IF n = 0 THEN {<<>>}
    ELSE ProjectLists(n - 1)
         \cup {Append(l, with_id(p, n)) : l \in {q \in ProjectLists(n - 1) : Len(q) = n - 1},
                                          p \in ProjectPool}

InitDriver ==
    /\ pc = "call"
    /\ \/ /\ fn \in {"invoiceProcess", "contractProcess"}
          /\ args \in [projects : ProjectLists(MaxProjects)]
       \/ /\ fn = "process_file_from_uri"
          /\ args \in [document : Documents]
    /\ ret = Pending
    /\ passes = 0
    /\ locals = NoLocals
    /\ store = <<>>

call_process_file_from_uri ==
    /\ pc = "call"
    /\ fn = "process_file_from_uri"
    /\ ret' = process_file_from_uri(args.document)
    /\ pc' = "return"
    /\ UNCHANGED <<fn, args, passes, locals, store>>

\* lines 27-35 and lines 57-64: the projects are read; none: return
call_driver ==
    /\ pc = "call"
    /\ fn \in {"invoiceProcess", "contractProcess"}
    /\ locals' = [idx |-> 1, total_amount |-> NoTotal, events |-> <<>>]
    /\ IF args.projects = <<>>
       THEN pc' = "return" /\ ret' = Return(PyNone)
       ELSE pc' = "loop" /\ ret' = ret
    /\ UNCHANGED <<fn, args, passes, store>>

\* the turn of project idx; an exception leaves the driver, which has no try;
\* after the last project the driver returns
driver_loop(turn) ==
    /\ locals' = [idx |-> IF turn.ret.exc = "pending" THEN locals.idx + 1 ELSE locals.idx,
                  total_amount |-> turn.total_amount,
                  events |-> locals.events \o turn.events]
    /\ store' = store \o turn.rows
    /\ IF turn.ret.exc # "pending"
       THEN pc' = "return" /\ ret' = turn.ret
       ELSE IF locals.idx = Len(args.projects)
            THEN pc' = "return" /\ ret' = Return(PyNone)
            ELSE pc' = "loop" /\ ret' = ret
    /\ UNCHANGED <<fn, args, passes>>

loop_invoiceProcess ==
    /\ pc = "loop"
    /\ fn = "invoiceProcess"
    /\ driver_loop(invoice_turn(args.projects[locals.idx]))

loop_contractProcess ==
    /\ pc = "loop"
    /\ fn = "contractProcess"
    /\ driver_loop(contract_turn(args.projects[locals.idx]))

NextDriver ==
    \/ call_process_file_from_uri
    \/ call_driver
    \/ loop_invoiceProcess
    \/ loop_contractProcess

SpecDriver == InitDriver /\ [][NextDriver]_vars /\ WF_vars(NextDriver)

(***************************************************************************)
(* Claims about the drivers.                                               *)
(***************************************************************************)
DriverOver == fn \in {"invoiceProcess", "contractProcess"} /\ pc = "return"

\* the rows written for the project
RowsOf(id) == {k \in DOMAIN store : store[k].id = id}

\* C16 as stated: in one run of invoiceProcess or contractProcess, for every
\* project returned by get_previous_projects update_project_verification is
\* performed exactly once, writing file_verified and verification_comment.
C16_AsStated ==
    DriverOver =>
        \A i \in DOMAIN args.projects :
            /\ Cardinality(RowsOf(args.projects[i].id)) = 1
            /\ \A k \in RowsOf(args.projects[i].id) :
                   {"file_verified", "verification_comment"} \subseteq DOMAIN store[k]

\* In a run of contractProcess during which the store answers, every project
\* gets exactly one row, and no project ever has two.
ContractProcessWritesOnce ==
    /\ (fn = "contractProcess" /\ pc = "return"
        /\ \A i \in DOMAIN args.projects : args.projects[i].store_up)
       => \A i \in DOMAIN args.projects :
              Cardinality(RowsOf(args.projects[i].id)) = 1
    /\ fn \in {"invoiceProcess", "contractProcess"}
       => \A i \in DOMAIN args.projects :
              Cardinality(RowsOf(args.projects[i].id)) <= 1

\* C17 as stated: no failure while processing one project aborts the batch: no
\* exception leaves the driver, the turn of every project is taken, and every
\* project has its verdict written.
C17_AsStated ==
    DriverOver =>
        /\ ret.exc = "none"
        /\ locals.idx > Len(args.projects)
        /\ \A i \in DOMAIN args.projects : RowsOf(args.projects[i].id) # {}

\* the document cannot be fetched, or its bytes are of no known kind
FetchFailed(document) == document.fetch # "ok"

UnknownKind(document) ==
    /\ document.fetch = "ok"
    /\ ~ListedPdf(document.content)
    /\ ~ListedImage(document.content)
    /\ ~RiffWebp(document.content)

\* C19 as stated: a failed fetch or a document of unknown kind is a failure of
\* that project only: process_file_from_uri does not raise, the project gets
\* a negative verdict, and the driver goes on to the next project.
C19_AsStated ==
    /\ (/\ fn = "process_file_from_uri"
        /\ pc = "return"
        /\ FetchFailed(args.document) \/ UnknownKind(args.document))
       => ret.exc = "none"
    /\ (fn = "invoiceProcess" /\ pc = "return")
       => \A i \in DOMAIN args.projects :
              (FetchFailed(args.projects[i].document)
               \/ UnknownKind(args.projects[i].document))
              => /\ locals.idx > i
                 /\ \E k \in RowsOf(args.projects[i].id) : ~store[k].file_verified

\* A PDF that is fetched never makes process_file_from_uri raise.
FetchedPdfIsProcessed ==
    (/\ fn = "process_file_from_uri"
     /\ pc = "return"
     /\ args.document.fetch = "ok"
     /\ ListedPdf(args.document.content))
    => ret.exc = "none"

\* the oracle extracts one record from the document, with this total
SingleTotal(document, total) ==
    /\ document.fetch = "ok"
    /\ Len(document.extracted) = 1
    /\ document.extracted[1] # PyNone
    /\ has(document.extracted[1], "total_amount_including_vat")
    /\ document.extracted[1]["total_amount_including_vat"].s = total

\* C20 as stated: the driver's aggregation strips currency labels and
\* separators before it coerces, and a value that cannot be coerced is a
\* negative outcome, never an exception: a complete invoice with the total
\* '1,150 SAR' is aggregated as 1150, and a total of 'abc' does not crash.
C20_AsStated ==
    (fn = "invoiceProcess" /\ pc = "return" /\ locals.idx \in DOMAIN args.projects) =>
        LET document == args.projects[locals.idx].document
        IN  /\ SingleTotal(document, <<"1", ",", "1", "5", "0", " ", "S", "A", "R">>)
               => locals.total_amount = [set |-> TRUE, val |-> 115000]
            /\ SingleTotal(document, <<"a", "b", "c">>)
               => ret.exc \notin {"ValueError", "TypeError"}

\* A total that is a plain number is aggregated as that number.
PlainTotalAggregated ==
    (fn = "invoiceProcess" /\ pc = "return" /\ locals.idx \in DOMAIN args.projects) =>
        (SingleTotal(args.projects[locals.idx].document, <<"1", "1", "5">>)
         => locals.total_amount = [set |-> TRUE, val |-> 11500])

\* C21 as stated: when the comparison yields no match, the reason supplied
\* with the negative verdict is what is reported: for every project whose
\* verdict from process_contract is negative, the verdict carries a reason and
\* the verification_comment the driver wrote is that reason.
C21_AsStated ==
    (fn = "contractProcess" /\ pc = "return") =>
        \A i \in DOMAIN args.projects :
            LET contracts == process_contract(args.projects[i])
            IN  (contracts.exc = "none" /\ ~contracts.val.is_valid)
                => \A k \in RowsOf(args.projects[i].id) :
                       /\ "reason" \in DOMAIN contracts.val
                       /\ store[k].verification_comment = contracts.val.reason

\* Every row contractProcess writes is negative and carries the fixed comment
\* of line 72, whatever the project.
ContractCommentIsFixed ==
    fn = "contractProcess" =>
        \A k \in DOMAIN store :
            /\ ~store[k].file_verified
            /\ store[k].verification_comment = "Invalid contract data"

\* the total of the record, when it is a plain number
PlainTotal(record) ==
    /\ has(record, "total_amount_including_vat")
    /\ record["total_amount_including_vat"].t = "str"
    /\ float_ok(record["total_amount_including_vat"].s)

\* the sum of the totals of the pages listed, in hundredths
RECURSIVE SumOfTotals(_, _)
SumOfTotals(extracted, pages) ==
    IF pages = <<>> THEN 0
    ELSE float_value(extracted[Head(pages)]["total_amount_including_vat"].s)
         + SumOfTotals(extracted, Tail(pages))

\* a PDF that is fetched and converted, each complete page with a plain total
PlainInvoice(document) ==
    /\ document.fetch = "ok"
    /\ ListedPdf(document.content)
    /\ document.pages = Len(document.extracted)
    /\ document.pages > 0
    /\ \A k \in DOMAIN CompletePages(document.extracted) :
           PlainTotal(document.extracted[CompletePages(document.extracted)[k]])

\* C22 as stated: in the invoice flow the aggregate of a project with k
\* complete invoice records is the sum of their total_amount_including_vat
\* (the single value when k = 1, 0 when k = 0), and the project is written
\* back as verified exactly when the aggregate equals its expected total.
C22_AsStated ==
    (fn = "invoiceProcess" /\ pc = "return") =>
        \A i \in DOMAIN args.projects :
            LET project == args.projects[i]
                aggregate == SumOfTotals(project.document.extracted,
                                         CompletePages(project.document.extracted))
            IN  (PlainInvoice(project.document) /\ project.store_up)
                => /\ i = locals.idx
                      => locals.total_amount = [set |-> TRUE, val |-> aggregate]
                   /\ RowsOf(project.id) # {}
                   /\ \A k \in RowsOf(project.id) :
                          store[k].file_verified
                              <=> (aggregate = project.total_amount_including_vat)

\* The aggregate the driver computes for the project it stops at is the sum
\* the claim names: the turn fails after the aggregate, at the write-back.
AggregateIsSum ==
    (fn = "invoiceProcess" /\ pc = "return" /\ locals.idx \in DOMAIN args.projects) =>
        LET project == args.projects[locals.idx]
        IN  PlainInvoice(project.document)
            => /\ locals.total_amount =
                      [set |-> TRUE,
                       val |-> SumOfTotals(project.document.extracted,
                                           CompletePages(project.document.extracted))]
               /\ ret.exc = "TypeError"

\* No run of invoiceProcess writes a row.
InvoiceProcessWritesNothing == fn = "invoiceProcess" => store = <<>>

(***************************************************************************)
(* FileConverter.convert_file_to_base64_images.  What PyMuPDF and PIL do   *)
(* with the bytes is an input: whether fitz.open accepts them, and for     *)
(* each page whether it renders and encodes or which call raises.  The     *)
(* encoded image of page j is written j.                                   *)
(***************************************************************************)
\* pages of the PDF
MaxPdfPages == 3

\* what the body of the loop does with one page: get_pixmap or Image.open
\* raise, pil_to_base64 raises (the ValueError of resize), or the page is
\* encoded
PageOutcomes == {"encoded", "render_raises", "encode_raises"}

RECURSIVE PdfPages(_)
PdfPages(n) ==
    IF n = 0 THEN {<<>>}
    ELSE PdfPages(n - 1)
         \cup {Append(l, o) : l \in {q \in PdfPages(n - 1) : Len(q) = n - 1},
                              o \in PageOutcomes}

\* lines 119-123: a file type other than 'pdf' is a ValueError, raised before
\* the try; fitz.open raising is caught by the except of line 150
convert_entry(file_type, opens) ==
    IF file_type # "pdf" THEN Raise("ValueError")
    ELSE IF ~opens THEN Return(<<>>)
    ELSE Pending

\* lines 125-148 and 150-152, one turn of the loop: after the last page the
\* images are returned; an exception of the page is caught by the one except
\* around the whole loop, which returns []
convert_step(frame, pages) ==
    IF frame.page_num = Len(pages)
    THEN [frame |-> frame, ret |-> Return(frame.images)]
    ELSE IF pages[frame.page_num + 1] # "encoded"
         THEN [frame |-> frame, ret |-> Return(<<>>)]
         ELSE [frame |-> [page_num |-> frame.page_num + 1,
                          images |-> Append(frame.images, frame.page_num + 1)],
               ret |-> Pending]

InitConvert ==
    /\ pc = "call"
    /\ fn = "convert_file_to_base64_images"
    /\ args \in [file_type : {"pdf", "image", "unknown"},
                 opens : BOOLEAN,
                 pages : PdfPages(MaxPdfPages)]
    /\ ret = Pending
    /\ passes = 0
    /\ locals = NoLocals
    /\ store = <<>>

call_convert_file_to_base64_images ==
    /\ pc = "call"
    /\ fn = "convert_file_to_base64_images"
    /\ LET entry == convert_entry(args.file_type, args.opens)
       IN  /\ ret' = entry
           /\ pc' = IF entry.exc = "pending" THEN "loop" ELSE "return"
           /\ locals' = IF entry.exc = "pending"
                        THEN [page_num |-> 0, images |-> <<>>]
                        ELSE locals
    /\ UNCHANGED <<fn, args, passes, store>>

loop_convert_file_to_base64_images ==
    /\ pc = "loop"
    /\ fn = "convert_file_to_base64_images"
    /\ LET step == convert_step(locals, args.pages)
       IN  /\ locals' = step.frame
           /\ ret' = step.ret
           /\ pc' = IF step.ret.exc = "pending" THEN "loop" ELSE "return"
    /\ UNCHANGED <<fn, args, passes, store>>

NextConvert ==
    \/ call_convert_file_to_base64_images
    \/ loop_convert_file_to_base64_images

SpecConvert == InitConvert /\ [][NextConvert]_vars

(***************************************************************************)
(* Claims about the conversion.                                            *)
(***************************************************************************)
\* a PDF that opens was converted
ConvertedPdf ==
    /\ fn = "convert_file_to_base64_images"
    /\ pc = "return"
    /\ args.file_type = "pdf"
    /\ args.opens

\* the pages that render and encode, in document order
OtherPages(pages) ==
    SelectSeq([j \in DOMAIN pages |-> j], LAMBDA j : pages[j] = "encoded")

\* C23 as stated: rasterization failure is per page: when rendering of page j
\* of an n-page PDF raises, convert_file_to_base64_images still returns the
\* encoded images of all other pages, in document order, and omits only j.
C23_AsStated ==
    ConvertedPdf => ret = Return(OtherPages(args.pages))

\* The call returns every page when none raises, and nothing at all as soon
\* as one does.
ConvertIsAllOrNothing ==
    ConvertedPdf =>
        ret = Return(IF \A j \in DOMAIN args.pages : args.pages[j] = "encoded"
                     THEN [j \in DOMAIN args.pages |-> j]
                     ELSE <<>>)

\* the events of the run between positions a and b
Between(a, b) == {c \in DOMAIN locals.events : a < c /\ c < b}

\* C24 as stated: in any batch run of invoiceProcess or contractProcess,
\* between the write-back for project i and the first oracle call for project
\* i+1 there is a pause step.
C24_AsStated ==
    fn \in {"invoiceProcess", "contractProcess"} /\ pc # "call" =>
        \A a, b \in DOMAIN locals.events :
            (/\ a < b
             /\ locals.events[a].e = "write"
             /\ locals.events[b].e = "oracle"
             /\ locals.events[b].id = locals.events[a].id + 1)
            => \E c \in Between(a, b) : locals.events[c].e = "pause"

\* No run of either driver ever takes a pause: contractProcess has none, and
\* invoiceProcess leaves the loop at the write-back that precedes it.
NoPauseIsEverTaken ==
    fn \in {"invoiceProcess", "contractProcess"} /\ pc # "call" =>
        \A c \in DOMAIN locals.events : locals.events[c].e # "pause"

\* the extractor returned null for the project: no contract data
NullExtraction(project) ==
    extract_contract_info_uri(PyDict(project), project.document.contract) = <<>>

\* the store answers for the project and for those before it
StoreAnswersUpTo(i) == \A j \in 1..i : args.projects[j].store_up

ExtractionIsAlwaysNull ==
    fn = "contractProcess" =>
        \A i \in DOMAIN args.projects : NullExtraction(args.projects[i])

(***************************************************************************)
(* Claims about the document-native mode of the invoice processor.         *)
(***************************************************************************)
UriProcessed == fn = "process_invoice_uri" /\ pc = "return"

\* the record the oracle returned, with the two keys added
AnnotatedUriRecord(result, record) ==
    /\ DOMAIN record \subseteq DOMAIN result
    /\ \A key \in DOMAIN record : result[key] = record[key]
    /\ {"processed_at", "zatca_validation"} \subseteq DOMAIN result

\* the oracle returned a record for the uri and the record passes
\* is_complete_invoice_data
CompleteRecordForUri ==
    /\ truthy(args.uri)
    /\ extracted_truthy(args.extracted)
    /\ is_complete_invoice_data(args.extracted) = Return(TRUE)

\* C26 as stated: when the oracle returns a record for the uri and the record
\* passes is_complete_invoice_data, process_invoice_uri returns a list
\* containing that record, annotated with processed_at and zatca_validation;
\* it returns the empty list only when the uri is empty, the extraction fails
\* or the record is incomplete.
C26_AsStated ==
    UriProcessed =>
        /\ ret.exc = "none"
        /\ IF CompleteRecordForUri
           THEN /\ Len(ret.val) = 1
                /\ AnnotatedUriRecord(ret.val[1], args.extracted)
           ELSE ret.val = <<>>

\* process_invoice_uri returns the empty list whatever the oracle returned.
UriModeReturnsNothing == UriProcessed => ret = Return(<<>>)

(***************************************************************************)
(* The vendor-facing routes of Form 1 (routes/form1.py) and of the         *)
(* documents (routes/documents.py), served for two clients at a time.      *)
(* store is the database: the form_submissions rows of (application, form  *)
(* 1) in table order, the contractor_completed_projects rows and the       *)
(* document_uploads rows of one application, owned by OWNER.  locals[c] is *)
(* the request client c has in flight or the response it got last.  One    *)
(* step of a route is one query: the routes run in no transaction, so the  *)
(* queries of two requests interleave.  Queries that only read for the     *)
(* response body are not steps.  Client 1 sends any request; client 2 is   *)
(* the owner opening and submitting the form in another window.            *)
(***************************************************************************)
\* project ids and document ids the database ever issues
MaxProjectRows == 2

MaxDocumentRows == 1

\* the vendor of the vendor_applications row, and another vendor
OWNER == "v1"

Vendors == {"v1", "v2"}

Clients == {1, 2}

\* the lock check left out
form_locked_unchecked(db) == FALSE

\* form_sub.data and len(form_sub.data) > 0 and
\* form_sub.data[0].get("is_locked", False)
form_locked(db) ==
    db.form_submissions # <<>> /\ Head(db.form_submissions).is_locked

\* a form_submissions row of the form has is_locked = true
has_locked_row(db) ==
    \E k \in DOMAIN db.form_submissions : db.form_submissions[k].is_locked

\* .update({"last_saved_at": ...}).eq("application_id", ...).eq("form_number", 1)
touch(db) ==
    [db EXCEPT !.form_submissions =
        [k \in DOMAIN db.form_submissions |->
            [db.form_submissions[k] EXCEPT !.last_saved_at = "now"]]]

\* the route answers with the status, and the request is over: what is kept
\* of it is the route, the status and whether the form was locked when it
\* came in; the route goes on at the next query
respond(r, status) ==
    [r EXCEPT !.at = "done", !.status = status, !.vendor = OWNER, !.id = 0,
              !.body = "none", !.data = 0]

goto(r, at) == [r EXCEPT !.at = at]

Idle == [op |-> "idle", vendor |-> OWNER, id |-> 0, body |-> "none",
         at |-> "done", status |-> 0, began_locked |-> FALSE, data |-> 0]

\* the requests a vendor may send: the route, the path parameter, the body
RequestPool ==
    {[op |-> op, vendor |-> v, id |-> 0, body |-> "none", at |-> "app_check"] :
        op \in {"get_form1_data", "create_completed_project", "submit_form1"},
        v \in Vendors}
    \cup {[op |-> "update_completed_project", vendor |-> v, id |-> i,
           body |-> b, at |-> "project"] :
             v \in Vendors, i \in 1..MaxProjectRows, b \in {"unset", "set"}}
    \cup {[op |-> "delete_completed_project", vendor |-> v, id |-> i,
           body |-> "none", at |-> "project"] :
             v \in Vendors, i \in 1..MaxProjectRows}
    \cup {[op |-> "upload_document", vendor |-> v, id |-> 1, body |-> f,
           at |-> "app_check"] :
             v \in Vendors, f \in {".pdf", ".exe"}}
    \cup {[op |-> "delete_document", vendor |-> v, id |-> i, body |-> "none",
           at |-> "document"] :
             v \in Vendors, i \in 1..MaxDocumentRows}

\* what the client sends
Sends(c) ==
    IF c = 1 THEN RequestPool
    ELSE {q \in RequestPool : /\ q.op \in {"get_form1_data", "submit_form1"}
                              /\ q.vendor = OWNER}

\* requests in flight that will ask the database for a new id
InFlight(op) == {c \in Clients : locals[c].op = op /\ locals[c].at # "done"}

InitForm1 ==
    /\ pc = "serve"
    /\ fn = "form1"
    /\ args = [application_id |-> "a1"]
    /\ ret = Pending
    /\ passes = 0
    /\ locals = [c \in Clients |-> Idle]
    /\ store = [form_submissions |-> <<>>, projects |-> {}, documents |-> {},
                project_ids |-> 0, document_ids |-> 0]

\* a client whose last request was answered sends the next one
receive(c) ==
    /\ pc = "serve"
    /\ fn = "form1"
    /\ locals[c].at = "done"
    /\ \E q \in Sends(c) :
           /\ q.op = "create_completed_project"
              => store.project_ids
                 + Cardinality(InFlight("create_completed_project")) < MaxProjectRows
           /\ q.op = "upload_document"
              => store.document_ids
                 + Cardinality(InFlight("upload_document")) < MaxDocumentRows
           /\ locals' = [locals EXCEPT ![c] =
                  [op |-> q.op, vendor |-> q.vendor, id |-> q.id, body |-> q.body,
                   at |-> q.at, status |-> 0,
                   began_locked |-> has_locked_row(store), data |-> 0]]
    /\ UNCHANGED <<pc, fn, args, ret, passes, store>>

\* the step of client c leaves the database db and the request r
served(c, db, r) ==
    /\ store' = db
    /\ locals' = [locals EXCEPT ![c] = r]
    /\ UNCHANGED <<pc, fn, args, ret, passes>>

\* form1.py 15-76; lines 36-52 only read for the response
get_form1_data(c) ==
    LET r == locals[c]
    IN  /\ r.op = "get_form1_data"
        /\ r.at # "done"
        /\ CASE r.at = "app_check" ->
                    served(c, store, IF r.vendor # OWNER THEN respond(r, 404)
                                     ELSE goto(r, "form_sub"))
             [] r.at = "form_sub" ->
                    served(c, store, IF store.form_submissions = <<>>
                                     THEN goto(r, "insert")
                                     ELSE respond(r, 200))
             [] r.at = "insert" ->
                    served(c, [store EXCEPT !.form_submissions =
                                   Append(@, [is_complete |-> FALSE,
                                              is_locked |-> FALSE,
                                              last_saved_at |-> "null"])],
                           respond(r, 200))

\* form1.py 79-157
create_completed_project(c) ==
    LET r == locals[c]
    IN  /\ r.op = "create_completed_project"
        /\ r.at # "done"
        /\ CASE r.at = "app_check" ->
                    served(c, store, IF r.vendor # OWNER THEN respond(r, 404)
                                     ELSE goto(r, "form_sub"))
             [] r.at = "form_sub" ->
                    served(c, store, IF form_locked(store) THEN respond(r, 403)
                                     ELSE goto(r, "insert"))
             [] r.at = "insert" ->
                    served(c, [store EXCEPT
                                   !.projects = @ \cup {[id |-> store.project_ids + 1,
                                                         contract_value_sar |-> 0]},
                                   !.project_ids = @ + 1],
                           goto(r, "touch"))
             [] r.at = "touch" ->
                    served(c, touch(store), respond(r, 201))

\* the project of the id, as the vendor sees it: .eq("id", project_id)
\* .eq("vendor_id", vendor_id); every project is the owner's
project_of(db, id, vendor) ==
    {p \in db.projects : p.id = id /\ vendor = OWNER}

\* form1.py 160-237: an update that matches no row leaves response.data
\* empty, and response.data[0] is an IndexError after the form was touched
update_completed_project(c) ==
    LET r == locals[c]
    IN  /\ r.op = "update_completed_project"
        /\ r.at # "done"
        /\ CASE r.at = "project" ->
                    served(c, store, IF project_of(store, r.id, r.vendor) = {}
                                     THEN respond(r, 404)
                                     ELSE goto(r, "form_sub"))
             [] r.at = "form_sub" ->
                    served(c, store, IF form_locked(store) THEN respond(r, 403)
                                     ELSE IF r.body = "unset" THEN respond(r, 200)
                                     ELSE goto(r, "update"))
             [] r.at = "update" ->
                    served(c, [store EXCEPT !.projects =
                                   {IF p.id = r.id
                                    THEN [p EXCEPT !.contract_value_sar = 1]
                                    ELSE p : p \in @}],
                           [goto(r, "touch") EXCEPT !.data =
                               Cardinality({p \in store.projects : p.id = r.id})])
             [] r.at = "touch" ->
                    served(c, touch(store),
                           IF r.data = 0 THEN respond(r, 500) ELSE respond(r, 200))

\* form1.py 240-282
delete_completed_project(c) ==
    LET r == locals[c]
    IN  /\ r.op = "delete_completed_project"
        /\ r.at # "done"
        /\ CASE r.at = "project" ->
                    served(c, store, IF project_of(store, r.id, r.vendor) = {}
                                     THEN respond(r, 404)
                                     ELSE goto(r, "form_sub"))
             [] r.at = "form_sub" ->
                    served(c, store, IF form_locked(store) THEN respond(r, 403)
                                     ELSE goto(r, "delete"))
             [] r.at = "delete" ->
                    served(c, [store EXCEPT !.projects = {p \in @ : p.id # r.id}],
                           respond(r, 204))

\* form1.py 285-331: the update of lines 325-329 changes the rows there are;
\* with no row response.data[0] is an IndexError, which the server answers
\* with 500
submit_form1(c) ==
    LET r == locals[c]
    IN  /\ r.op = "submit_form1"
        /\ r.at # "done"
        /\ CASE r.at = "app_check" ->
                    served(c, store, IF r.vendor # OWNER THEN respond(r, 404)
                                     ELSE goto(r, "projects"))
             [] r.at = "projects" ->
                    served(c, store, IF store.projects = {} THEN respond(r, 400)
                                     ELSE goto(r, "update"))
             [] r.at = "update" ->
                    served(c, [store EXCEPT !.form_submissions =
                                   [k \in DOMAIN @ |->
                                       [is_complete |-> TRUE, is_locked |-> TRUE,
                                        last_saved_at |-> "now"]]],
                           IF store.form_submissions = <<>> THEN respond(r, 500)
                           ELSE respond(r, 200))

\* documents.py 29-145 with form_number = 1 and the first project as
\* related_entity_id: validate_file follows the lock check; the upload to
\* the storage is not a query of the database
upload_document(c) ==
    LET r == locals[c]
    IN  /\ r.op = "upload_document"
        /\ r.at # "done"
        /\ CASE r.at = "app_check" ->
                    served(c, store, IF r.vendor # OWNER THEN respond(r, 404)
                                     ELSE goto(r, "form_sub"))
             [] r.at = "form_sub" ->
                    served(c, store, IF form_locked(store) THEN respond(r, 403)
                                     ELSE IF r.body # ".pdf" THEN respond(r, 400)
                                     ELSE goto(r, "insert"))
             [] r.at = "insert" ->
                    served(c, [store EXCEPT
                                   !.documents = @ \cup {[id |-> store.document_ids + 1,
                                                          related_entity_id |-> r.id]},
                                   !.document_ids = @ + 1],
                           respond(r, 201))

\* documents.py 223-279: the document is looked up by id alone and the
\* vendor is compared afterwards
delete_document(c) ==
    LET r == locals[c]
    IN  /\ r.op = "delete_document"
        /\ r.at # "done"
        /\ CASE r.at = "document" ->
                    served(c, store,
                           IF {d \in store.documents : d.id = r.id} = {}
                           THEN respond(r, 404)
                           ELSE IF r.vendor # OWNER THEN respond(r, 403)
                           ELSE goto(r, "form_sub"))
             [] r.at = "form_sub" ->
                    served(c, store, IF form_locked(store) THEN respond(r, 403)
                                     ELSE goto(r, "delete"))
             [] r.at = "delete" ->
                    served(c, [store EXCEPT !.documents = {d \in @ : d.id # r.id}],
                           respond(r, 204))

NextForm1 ==
    \E c \in Clients :
        \/ receive(c)
        \/ get_form1_data(c)
        \/ create_completed_project(c)
        \/ update_completed_project(c)
        \/ delete_completed_project(c)
        \/ submit_form1(c)
        \/ upload_document(c)
        \/ delete_document(c)

SpecForm1 == InitForm1 /\ [][NextForm1]_vars

(***************************************************************************)
(* Claims about the routes of Form 1.                                      *)
(***************************************************************************)
\* the routes that change the projects and documents of the form
ModifyingRoutes ==
    {"create_completed_project", "update_completed_project",
     "delete_completed_project", "upload_document", "delete_document"}

\* the request of client c takes a step
Steps(c) == locals[c].at # "done" /\ locals'[c] # locals[c]

\* the look-up of the request fails: the vendor does not own the application,
\* or there is no such project or document
LookupFails(r) ==
    \/ r.vendor # OWNER
    \/ r.at = "project" /\ \A p \in store.projects : p.id # r.id
    \/ r.at = "document" /\ \A d \in store.documents : d.id # r.id

\* no row of form_submissions goes from locked to unlocked, and none is removed
LockStays ==
    \A k \in DOMAIN store.form_submissions :
        store.form_submissions[k].is_locked
        => /\ k \in DOMAIN store'.form_submissions
           /\ store'.form_submissions[k].is_locked

\* C27: a locked form is frozen: a create_completed_project,
\* update_completed_project, delete_completed_project, upload_document or
\* delete_document request that comes in while the form_submissions row of
\* the form has is_locked = true changes no row of the projects, documents
\* and form_submissions, and is answered 403 (404 when its look-up finds no
\* application, project or document of the vendor); and no step of any route
\* sets is_locked back to false.
C27_LockedFormIsFrozen ==
    [][/\ \A c \in Clients :
              (/\ locals[c].op \in ModifyingRoutes
               /\ locals[c].began_locked
               /\ Steps(c))
              => /\ store' = store
                 /\ locals'[c].at = "done"
                    => \/ locals'[c].status = 403
                       \/ locals'[c].status = 404 /\ LookupFails(locals[c])
       /\ LockStays]_vars

\* the form is locked, it has a project and a document, and the owner's
\* request to change the project, made after the lock, was answered 403
C27_Witness ==
    /\ fn = "form1"
    /\ form_locked(store)
    /\ store.projects # {}
    /\ store.documents # {}
    /\ locals[1].op = "update_completed_project"
    /\ locals[1].at = "done"
    /\ locals[1].began_locked
    /\ locals[1].status = 403

\* The rows that are locked come first in the table: the row the lock check
\* reads is locked as soon as any row is.
LockedRowsFirst ==
    fn = "form1" => (has_locked_row(store) => form_locked(store))

\* C28 as stated: submitting locks the form after any history: whenever a
\* submit_form1 call by the owning vendor on an application with at least one
\* completed project is answered, it is answered 200 and a form_submissions
\* row of form 1 has is_complete = true and is_locked = true, also when
\* get_form1_data was never called; with zero projects it returns 400 and
\* changes nothing.
C28_AsStated ==
    /\ [](fn = "form1" =>
            \A c \in Clients :
                (/\ locals[c].op = "submit_form1"
                 /\ locals[c].at = "done"
                 /\ locals[c].status \notin {400, 404})
                => /\ locals[c].status = 200
                   /\ \E k \in DOMAIN store.form_submissions :
                          /\ store.form_submissions[k].is_complete
                          /\ store.form_submissions[k].is_locked)
    /\ [][\A c \in Clients :
              (/\ locals[c].op = "submit_form1"
               /\ Steps(c)
               /\ locals'[c].at = "done"
               /\ locals'[c].status = 400)
              => store' = store /\ store.projects = {}]_vars

\* Once the form has a form_submissions row, a submit_form1 call that finds a
\* project is answered 200 and leaves every row complete and locked; a call
\* that finds none is answered 400 and changes nothing.
SubmitLocksWhenRowExists ==
    [][\A c \in Clients :
           (locals[c].op = "submit_form1" /\ Steps(c) /\ locals'[c].at = "done")
           => /\ locals'[c].status = 400 => store' = store
              /\ (locals[c].at = "update" /\ store.form_submissions # <<>>)
                 => /\ locals'[c].status = 200
                    /\ \A k \in DOMAIN store'.form_submissions :
                           /\ store'.form_submissions[k].is_complete
                           /\ store'.form_submissions[k].is_locked]_vars

\* C29 as stated: the lock holds under concurrency: for every interleaving of
\* a submit_form1 request with a create, update or delete project request on
\* the same application, no project row is inserted, changed or deleted after
\* is_locked became true, and a submitted form always has a project.
C29_AsStated ==
    /\ [](fn = "form1" => (has_locked_row(store) => store.projects # {}))
    /\ [][has_locked_row(store) => store'.projects = store.projects]_vars

\* A request that changes the projects of a locked form came in before the
\* lock: it passed its lock check while the form was still open.
OnlyEarlierRequestsPassTheLock ==
    [][(has_locked_row(store) /\ store'.projects # store.projects)
       => \E c \in Clients : Steps(c) /\ ~locals[c].began_locked]_vars

(***************************************************************************)
(* The vendor-facing routes of Form 3 (routes/form3.py), one request at a  *)
(* time.  store is the database: the form_submissions rows of              *)
(* (application, form 3), the project_profiles rows, and the rows of the   *)
(* four child tables as items; the application and its ongoing project     *)
(* "o1" of Form 2 belong to OWNER.  ret is the response last sent.  The    *)
(* last_saved_at of the rows is not kept here.                             *)
(***************************************************************************)
\* profile ids and child item ids the database ever issues
MaxProfileRows == 2

MaxItemRows == 2

ChildTables ==
    {"project_personnel", "project_equipment", "project_materials",
     "project_subcontractors"}

\* the response of the route to the vendor
answer(op, vendor, status) ==
    Return([op |-> op, vendor |-> vendor, status |-> status])

InitForm3 ==
    /\ pc = "serve"
    /\ fn = "form3"
    /\ args = [application_id |-> "a1"]
    /\ ret = Pending
    /\ passes = 0
    /\ locals = NoLocals
    /\ store = [form_submissions |-> <<>>, profiles |-> {}, items |-> {},
                profile_ids |-> 0, item_ids |-> 0]

\* the step of a route leaves the database db and sends the response
routed(db, resp) ==
    /\ pc = "serve"
    /\ fn = "form3"
    /\ store' = db
    /\ ret' = resp
    /\ UNCHANGED <<pc, fn, args, passes, locals>>

\* form3.py 17-122
get_form3_data ==
    \E vendor \in Vendors :
        IF vendor # OWNER THEN routed(store, answer("get_form3_data", vendor, 404))
        ELSE routed(IF store.form_submissions = <<>>
                    THEN [store EXCEPT !.form_submissions =
                             <<[is_complete |-> FALSE, is_locked |-> FALSE]>>]
                    ELSE store,
                    answer("get_form3_data", vendor, 200))

\* form3.py 125-222
create_project_profile ==
    \E vendor \in Vendors, ongoing_project_id \in {"o1", "o2"} :
        /\ store.profile_ids < MaxProfileRows
        /\ LET op == "create_project_profile"
           IN  IF vendor # OWNER THEN routed(store, answer(op, vendor, 404))
               ELSE IF form_locked(store) THEN routed(store, answer(op, vendor, 403))
               ELSE IF ongoing_project_id # "o1"
                    THEN routed(store, answer(op, vendor, 404))
               ELSE IF store.profiles # {} THEN routed(store, answer(op, vendor, 400))
               ELSE routed([store EXCEPT
                                !.profiles = {[id |-> store.profile_ids + 1]},
                                !.profile_ids = @ + 1],
                           answer(op, vendor, 201))

\* the profile of the id, as the vendor sees it: .eq("id", profile_id)
\* .eq("vendor_id", vendor_id); every profile is the owner's
profile_of(db, profile_id, vendor) ==
    {p \in db.profiles : p.id = profile_id /\ vendor = OWNER}

\* form3.py 316-358; the delete cascades to the child tables
delete_project_profile ==
    \E vendor \in Vendors, profile_id \in 1..MaxProfileRows :
        LET op == "delete_project_profile"
        IN  IF profile_of(store, profile_id, vendor) = {}
            THEN routed(store, answer(op, vendor, 404))
            ELSE IF form_locked(store) THEN routed(store, answer(op, vendor, 403))
            ELSE routed([store EXCEPT
                             !.profiles = {p \in @ : p.id # profile_id},
                             !.items = {i \in @ : i.project_profile_id # profile_id}],
                        answer(op, vendor, 204))

\* add_personnel, add_equipment, add_material, add_subcontractor: the profile
\* is looked up for the vendor, and the item is inserted
add_item(op, table) ==
    \E vendor \in Vendors, profile_id \in 1..MaxProfileRows :
        /\ store.item_ids < MaxItemRows
        /\ IF profile_of(store, profile_id, vendor) = {}
           THEN routed(store, answer(op, vendor, 404))
           ELSE routed([store EXCEPT
                            !.items = @ \cup {[table |-> table,
                                               id |-> store.item_ids + 1,
                                               project_profile_id |-> profile_id]},
                            !.item_ids = @ + 1],
                       answer(op, vendor, 201))

\* delete_personnel, delete_equipment, delete_material, delete_subcontractor:
\* the row of the id is deleted from the table
delete_item(op, table) ==
    \E vendor \in Vendors, item_id \in 1..MaxItemRows :
        routed([store EXCEPT !.items =
                   {i \in @ : ~(i.table = table /\ i.id = item_id)}],
               answer(op, vendor, 204))

\* form3.py 362-377
add_personnel == add_item("add_personnel", "project_personnel")

\* form3.py 380-383
delete_personnel == delete_item("delete_personnel", "project_personnel")

\* form3.py 387-401
add_equipment == add_item("add_equipment", "project_equipment")

\* form3.py 404-407
delete_equipment == delete_item("delete_equipment", "project_equipment")

\* form3.py 411-425
add_material == add_item("add_material", "project_materials")

\* form3.py 428-431
delete_material == delete_item("delete_material", "project_materials")

\* form3.py 435-453
add_subcontractor == add_item("add_subcontractor", "project_subcontractors")

\* form3.py 456-459
delete_subcontractor == delete_item("delete_subcontractor", "project_subcontractors")

\* form3.py 462-488: with no form_submissions row response.data[0] is an
\* IndexError, which the server answers with 500
submit_form3 ==
    \E vendor \in Vendors :
        LET op == "submit_form3"
        IN  IF vendor # OWNER THEN routed(store, answer(op, vendor, 404))
            ELSE IF store.profiles = {} THEN routed(store, answer(op, vendor, 400))
            ELSE routed([store EXCEPT !.form_submissions =
                            [k \in DOMAIN @ |->
                                [is_complete |-> TRUE, is_locked |-> TRUE]]],
                        IF store.form_submissions = <<>>
                        THEN answer(op, vendor, 500)
                        ELSE answer(op, vendor, 200))

NextForm3 ==
    \/ get_form3_data
    \/ create_project_profile
    \/ delete_project_profile
    \/ add_personnel
    \/ delete_personnel
    \/ add_equipment
    \/ delete_equipment
    \/ add_material
    \/ delete_material
    \/ add_subcontractor
    \/ delete_subcontractor
    \/ submit_form3

SpecForm3 == InitForm3 /\ [][NextForm3]_vars

(***************************************************************************)
(* Claims about the routes of Form 3.                                      *)
(***************************************************************************)
ChildRoutes ==
    {"add_personnel", "delete_personnel", "add_equipment", "delete_equipment",
     "add_material", "delete_material", "add_subcontractor",
     "delete_subcontractor"}

\* the step is a call of a child route that changes the rows of the child
\* tables
ChildRowsChange ==
    /\ store'.items # store.items
    /\ ret'.val.op \in ChildRoutes

\* C30 as stated: child items of a Form 3 project profile can be added or
\* deleted only by the vendor who owns the profile and only while Form 3 is
\* not locked: no add_* or delete_* call by another vendor, or made after
\* submit_form3, changes those rows.
C30_AsStated ==
    [][ChildRowsChange
       => /\ ret'.val.vendor = OWNER
          /\ ~form_locked(store)]_vars

\* An add_* call changes the child rows only for the vendor who owns the
\* profile; what it lacks is the lock check.
AddIsByTheOwner ==
    [][(ChildRowsChange /\ Cardinality(store'.items) > Cardinality(store.items))
       => ret'.val.vendor = OWNER]_vars

====
